---- MODULE Spec2Model ----
(***************************************************************************)
(* Model of the bookmarks application: its widget styling and composition *)
(* layer (colour algebra, contrast palettes, the theme resolver, the      *)
(* style sheets of the custom Theme, the row/column fold helpers, the two *)
(* tabbed-view composers, the TextButton builder) and the application     *)
(* itself (App::new, the load tasks, App::update and App::view).          *)
(*                                                                         *)
(* Conventions.  Rust indices are kept 0-based: tab i of the source is    *)
(* tabs[i + 1] of the TLA+ sequence.  Option<T> is a sequence of length   *)
(* at most one: None is << >> and Some(x) is << x >>.  A panic is the     *)
(* record [panic |-> message].  An f32 is the integer of its bit pattern,   *)
(* negated when the sign bit is set (1.0 is 0x3f800000, -0.25 is           *)
(* -0x3e800000), so that every f32 is a value of the model and the order   *)
(* of the integers is the order of the values; the two zeros, which        *)
(* compare equal, are the one value 0, and there is one NaN.  Every        *)
(* operation is rounded as the compiled code rounds it (to nearest, ties   *)
(* to even, subnormal results included).                                   *)
(***************************************************************************)
EXTENDS Integers, Sequences, FiniteSets, TLC

VARIABLES
    inPalette,  \* style probe: the ContrastPalette the operations are applied to
    inTheme,    \* style probe: Theme argument of the last call
    inT,        \* style probe: Option<f32> factor argument of the last call
    inStyle,    \* style probe: [kind, method, style] of the last appearance call
    call,       \* style probe: name of the function called last
    ret,        \* style probe: value (or panic) the last call returned
    widget,     \* composition: the widget builder under construction
    element,    \* composition: what the last conversion, fold or view produced
    flags,      \* application: the Flags the application is started with
    app,        \* application: the App (data, tabs, selected_tab), once created
    tasks,      \* application: futures spawned on the executor, not yet completed
    inbox,      \* application: messages produced, waiting for update
    hist        \* application: what update handled last, and counts per file

styleVars == <<inPalette, inTheme, inT, inStyle, call, ret>>
composeVars == <<widget, element>>
appVars == <<flags, app, tasks, inbox, hist>>
vars == <<inPalette, inTheme, inT, inStyle, call, ret, widget, element,
          flags, app, tasks, inbox, hist>>

(***************************************************************************)
(* Option<T> and panics                                                    *)
(***************************************************************************)
None == << >>
Some(x) == << x >>
is_some(o) == Len(o) = 1
unwrap_or(o, default) == IF is_some(o) THEN o[1] ELSE default

Panic(msg) == [panic |-> msg]
IsPanic(v) == "panic" \in DOMAIN v

\* todo!() panics with this message.
todo == Panic("not yet implemented")

(***************************************************************************)
(* f32: values and arithmetic                                              *)
(***************************************************************************)
\* 1.0, 0.5 and 0.25: the bit patterns 0x3f800000, 0x3f000000, 0x3e800000.
One == 127 * 2^23
Half == 126 * 2^23
Quarter == 125 * 2^23

\* The infinity 0x7f800000, and the one NaN of the model, 0x7fc00000.
Inf == 255 * 2^23
NaN == 255 * 2^23 + 2^22
IsNaN(x) == x > Inf \/ x < -Inf

Abs(x) == IF x < 0 THEN -x ELSE x
Sign(x) == IF x < 0 THEN -1 ELSE 1

RECURSIVE BitLen(_)
BitLen(n) == IF n = 0 THEN 0 ELSE 1 + BitLen(n \div 2)

\* Inside an operation a finite f32 is the record [m, e] of the value m * 2^e.
\* An f32 has the exponent -149 at least; its significand has 24 bits, or fewer
\* at the exponent -149 (the subnormal values).
MinExp == -149
Zero == [m |-> 0, e |-> MinExp]

\* The integer nearest to q + r / u (0 <= r < u), ties to the even one.
Nearest(q, r, u) ==
    IF 2 * r > u \/ (2 * r = u /\ q % 2 = 1) THEN q + 1 ELSE q

\* The f32 of sign s and value m * 2^e (m <= 2^24, e >= -149), written with
\* the smallest exponent an f32 allows; 2^24 is 2^23 at the next exponent.
Canonical(s, m, e) ==
    LET room == 24 - BitLen(m)
        shift == IF room < e - MinExp THEN room ELSE e - MinExp
    IN  IF m = 0 THEN Zero
        ELSE IF m = 2^24 THEN [m |-> s * 2^23, e |-> e + 1]
        ELSE [m |-> s * m * 2^shift, e |-> e - shift]

\* The number of low bits a significand of len bits at the exponent e loses:
\* those beyond the 24th, and those below 2^-149.
Dropped(len, e) ==
    IF MinExp - e > len - 24
    THEN (IF MinExp - e > 0 THEN MinExp - e ELSE 0)
    ELSE (IF len - 24 > 0 THEN len - 24 ELSE 0)

\* The f32 nearest to s * n * 2^e (s the sign, 0 <= n < 2^30), ties to even.
FloatRound(s, n, e) ==
    LET drop == Dropped(BitLen(n), e)
    IN  IF drop > BitLen(n) THEN Zero
        ELSE Canonical(s, Nearest(n \div 2^drop, n % 2^drop, 2^drop), e + drop)

\* f32::from_bits
Float(x) ==
    LET bits == Abs(x)
        exponent == bits \div 2^23
        fraction == bits % 2^23
    IN  IF exponent = 0 THEN [m |-> Sign(x) * fraction, e |-> MinExp]
        ELSE [m |-> Sign(x) * (2^23 + fraction), e |-> exponent - 150]

\* f32::to_bits of the f32 written [m, e] by FloatRound; a value of 2^128 or
\* more has overflowed to the infinity.
Bits(f) ==
    IF Abs(f.m) < 2^23 THEN f.m
    ELSE IF f.e + 150 >= 255 THEN Sign(f.m) * Inf
    ELSE Sign(f.m) * ((f.e + 150) * 2^23 + (Abs(f.m) - 2^23))

\* The f32 nearest to n * 2^e, as a literal of the source is read.
f32(n, e) == Bits(FloatRound(Sign(n), Abs(n), e))

\* The same value with a significand of 24 bits and whatever exponent that
\* takes (zero is left alone).
Normal(f) ==
    IF f.m = 0 THEN f
    ELSE LET shift == 24 - BitLen(Abs(f.m))
         IN  [m |-> f.m * 2^shift, e |-> f.e - shift]

FloatNeg(f) == [f EXCEPT !.m = -@]

\* The exact product of two significands, in two words of 24 bits computed
\* from their halves of 12 bits.
Product(a, b) ==
    LET mid == (a \div 4096) * (b % 4096) + (a % 4096) * (b \div 4096)
        low == (a % 4096) * (b % 4096) + (mid % 4096) * 4096
    IN  [hi |-> (a \div 4096) * (b \div 4096) + mid \div 4096 + low \div 2^24,
         lo |-> low % 2^24]

\* The product without its drop low bits, rounded to nearest, ties to even.
ProductNearest(p, drop) ==
    IF drop <= 24
    THEN Nearest(p.hi * 2^(24 - drop) + p.lo \div 2^drop, p.lo % 2^drop, 2^drop)
    ELSE Nearest(p.hi \div 2^(drop - 24),
                 2 * (p.hi % 2^(drop - 24)) + (IF p.lo > 0 THEN 1 ELSE 0),
                 2 * 2^(drop - 24))

\* The f32 nearest to s * p * 2^e for a product p of len bits.
ProductRound(s, p, e) ==
    LET len == IF p.hi = 0 THEN BitLen(p.lo) ELSE 24 + BitLen(p.hi)
        drop == Dropped(len, e)
    IN  IF drop > len THEN Zero
        ELSE Canonical(s, ProductNearest(p, drop), e + drop)

\* Multiplication of finite values: the exact product, rounded once.
FloatMul(f, g) ==
    IF f.m = 0 \/ g.m = 0 THEN Zero
    ELSE ProductRound(Sign(f.m) * Sign(g.m), Product(Abs(f.m), Abs(g.m)), f.e + g.e)

\* x + y for x of the larger exponent, both with significands of 24 bits: y is
\* shifted to the exponent of x, three guard bits and a sticky bit kept, and
\* the sum is rounded once.  An operand more than 25 binary places below the
\* other does not change it: the sum is then big, the larger operand.
AddAligned(big, x, y) ==
    LET d == x.e - y.e
        sum == x.m * 16
                + Sign(y.m) * (2 * ((Abs(y.m) * 8) \div 2^d)
                                + (IF (Abs(y.m) * 8) % 2^d = 0 THEN 0 ELSE 1))
    IN  IF d > 25 THEN big ELSE FloatRound(Sign(sum), Abs(sum), x.e - 4)

\* Addition of finite values.
FloatAdd(f, g) ==
    IF f.m = 0 THEN g
    ELSE IF g.m = 0 THEN f
    ELSE IF Normal(f).e >= Normal(g).e THEN AddAligned(f, Normal(f), Normal(g))
    ELSE AddAligned(g, Normal(g), Normal(f))

FloatSub(f, g) == FloatAdd(f, FloatNeg(g))

\* The f32 operators +, - and * on the values of the model.  The two zeros of
\* an f32, which compare equal, are the one value 0.
F32Add(x, y) ==
    IF IsNaN(x) \/ IsNaN(y) THEN NaN
    ELSE IF Abs(x) = Inf THEN (IF y = -x THEN NaN ELSE x)
    ELSE IF Abs(y) = Inf THEN y
    ELSE Bits(FloatAdd(Float(x), Float(y)))

F32Sub(x, y) == IF IsNaN(y) THEN NaN ELSE F32Add(x, -y)

F32Mul(x, y) ==
    IF IsNaN(x) \/ IsNaN(y) THEN NaN
    ELSE IF Abs(x) = Inf \/ Abs(y) = Inf
    THEN (IF x = 0 \/ y = 0 THEN NaN ELSE Sign(x) * Sign(y) * Inf)
    ELSE Bits(FloatMul(Float(x), Float(y)))

\* f32::clamp (min <= max; a NaN is returned as it is)
clamp(n, min, max) ==
    IF IsNaN(n) THEN n ELSE IF n < min THEN min ELSE IF n > max THEN max ELSE n

(***************************************************************************)
(* crates/ui-util/src/lib.rs: colour algebra                               *)
(***************************************************************************)
\* Mutant: the factor is used without being clamped.
lerp_unclamped_t(a, b, t) ==
    LET ca == clamp(a, 0, One)
        cb == clamp(b, 0, One)
    IN  clamp(F32Add(ca, F32Mul(t, F32Sub(cb, ca))), 0, One)

\* Mutant: the end points are taken in the wrong order.
lerp_swapped(a, b, t) ==
    LET ca == clamp(a, 0, One)
        cb == clamp(b, 0, One)
        ct == clamp(t, 0, One)
    IN  clamp(F32Add(cb, F32Mul(ct, F32Sub(ca, cb))), 0, One)

lerp(a, b, t) ==
    LET ca == clamp(a, 0, One)
        cb == clamp(b, 0, One)
        ct == clamp(t, 0, One)
    IN  clamp(F32Add(ca, F32Mul(ct, F32Sub(cb, ca))), 0, One)

\* Mutant: the default factor is 1.
DefaultMute_one == One

\* The factor mute_color uses when none is given: 0.25.
DefaultMute == Quarter

\* Mutant: alpha is blended like the other channels.
mute_color_alpha(c, t) ==
    LET tt == unwrap_or(t, DefaultMute)
    IN  [r |-> lerp(c.r, Half, tt),
         g |-> lerp(c.g, Half, tt),
         b |-> lerp(c.b, Half, tt),
         a |-> lerp(c.a, Half, tt)]

mute_color(c, t) ==
    LET tt == unwrap_or(t, DefaultMute)
    IN  [r |-> lerp(c.r, Half, tt),
         g |-> lerp(c.g, Half, tt),
         b |-> lerp(c.b, Half, tt),
         a |-> c.a]

(***************************************************************************)
(* crates/ui-util/src/lib.rs: ContrastPalette, Theme, BoxPalette           *)
(***************************************************************************)
Themes == {"Light", "Dark", "DarkMute"}

White == [r |-> One, g |-> One, b |-> One, a |-> One]
Black == [r |-> 0, g |-> 0, b |-> 0, a |-> One]

\* Mutant: bright and dim are exchanged.
ContrastPalette_monochrome_swapped == [bright |-> Black, dim |-> White]

ContrastPalette_monochrome == [bright |-> White, dim |-> Black]

\* Mutant: bright is muted as well.
ContrastPalette_mute_dim_both(self, t) ==
    [bright |-> mute_color(self.bright, t), dim |-> mute_color(self.dim, t)]

ContrastPalette_mute_dim(self, t) ==
    [bright |-> self.bright, dim |-> mute_color(self.dim, t)]

\* Mutant: both colours are taken from dim.
ContrastPalette_invert_dim(self) == [bright |-> self.dim, dim |-> self.dim]

ContrastPalette_invert(self) == [bright |-> self.dim, dim |-> self.bright]

Theme_contrast_palette(self) == ContrastPalette_monochrome

Theme_box_palette(self) ==
    LET cp == Theme_contrast_palette(self)
    IN  CASE self = "Light" -> [text |-> cp.dim, background |-> cp.bright]
          [] self = "Dark" -> [text |-> cp.bright, background |-> cp.dim]
          [] self = "DarkMute" ->
                [text |-> cp.bright, background |-> mute_color(cp.dim, None)]

\* Mutant: the Light and Dark arms are exchanged.
BoxPalette_from_contrast_palette_arms(theme, palette) ==
    CASE theme = "Dark" -> [text |-> palette.dim, background |-> palette.bright]
      [] theme = "Light" -> [text |-> palette.bright, background |-> palette.dim]
      [] theme = "DarkMute" ->
            [text |-> palette.bright, background |-> mute_color(palette.dim, None)]

\* Mutant: the Dark arm takes both colours from bright.
BoxPalette_from_contrast_palette_flat(theme, palette) ==
    CASE theme = "Light" -> [text |-> palette.dim, background |-> palette.bright]
      [] theme = "Dark" -> [text |-> palette.bright, background |-> palette.bright]
      [] theme = "DarkMute" ->
            [text |-> palette.bright, background |-> mute_color(palette.dim, None)]

BoxPalette_from_contrast_palette(theme, palette) ==
    CASE theme = "Light" -> [text |-> palette.dim, background |-> palette.bright]
      [] theme = "Dark" -> [text |-> palette.bright, background |-> palette.dim]
      [] theme = "DarkMute" ->
            [text |-> palette.bright, background |-> mute_color(palette.dim, None)]

\* BoxPalette has two fields; `text` is its foreground/text/outline colour.
BoxPalette_role(bp, role) ==
    IF role = "background" THEN bp.background ELSE bp.text

(***************************************************************************)
(* crates/ui-util/src/lib.rs: BoxOptions, theme::Container, theme::Text,   *)
(* and the style sheets implemented for Theme                              *)
(***************************************************************************)
BoxOptions_minimal == [border |-> FALSE, text |-> FALSE, background |-> FALSE]
BoxOptions_solid == [border |-> FALSE, text |-> TRUE, background |-> TRUE]
BoxOptions_defined == [border |-> TRUE, text |-> TRUE, background |-> TRUE]

\* theme::Text, wrapped in the Option the text style sheet takes.
TextStyles(palette) ==
    {None,
     Some([variant |-> "Theme"]),
     Some([variant |-> "ContrastPalette", palette |-> palette]),
     Some([variant |-> "Color", color |-> palette.dim])}

\* theme::Container, the style of containers, togglers and buttons.
ContainerStyles(palette) ==
    {[variant |-> "Theme"], [variant |-> "Custom"]}
        \cup {[variant |-> "ContrastPalette", palette |-> palette, options |-> o] :
                o \in {BoxOptions_minimal, BoxOptions_solid, BoxOptions_defined}}
        \cup {[variant |-> "BoxPalette",
                palette |-> [text |-> palette.dim, background |-> palette.bright],
                options |-> o] :
                o \in {BoxOptions_minimal, BoxOptions_defined}}

\* impl iced::application::StyleSheet for Theme
application_appearance(self, style) ==
    LET bp == BoxPalette_from_contrast_palette(self, style)
    IN  [background_color |-> bp.background, text_color |-> bp.text]

\* Mutant: an explicit colour is muted under DarkMute.
text_appearance_muted(self, style) ==
    IF ~is_some(style) THEN [color |-> None]
    ELSE LET st == style[1]
         IN  CASE st.variant = "Theme" -> todo
               [] st.variant = "ContrastPalette" ->
                    [color |-> Some(CASE self = "Light" -> st.palette.dim
                                      [] self = "Dark" -> st.palette.bright
                                      [] self = "DarkMute" ->
                                            mute_color(st.palette.dim, None))]
               [] st.variant = "Color" ->
                    [color |-> Some(IF self = "DarkMute"
                                    THEN mute_color(st.color, None)
                                    ELSE st.color)]

\* impl iced::widget::text::StyleSheet for Theme
text_appearance(self, style) ==
    IF ~is_some(style) THEN [color |-> None]
    ELSE LET st == style[1]
         IN  CASE st.variant = "Theme" -> todo
               [] st.variant = "ContrastPalette" ->
                    [color |-> Some(CASE self = "Light" -> st.palette.dim
                                      [] self = "Dark" -> st.palette.bright
                                      [] self = "DarkMute" ->
                                            mute_color(st.palette.dim, None))]
               [] st.variant = "Color" -> [color |-> Some(st.color)]

\* impl iced::widget::container::StyleSheet for Theme
container_appearance(self, style) == todo

\* impl iced::widget::toggler::StyleSheet for Theme
toggler_active(self, style, is_active) == todo
toggler_hovered(self, style, is_active) == todo

\* impl iced::widget::button::StyleSheet for Theme
button_active(self, style) == todo
button_hovered(self, style) == todo

\* The appearance callback of a widget kind, by the method the toolkit calls.
Appearance(self, kind, method, style) ==
    CASE kind = "application" -> application_appearance(self, style)
      [] kind = "text" -> text_appearance(self, style)
      [] kind = "container" -> container_appearance(self, style)
      [] kind = "toggler" /\ method = "active" -> toggler_active(self, style, TRUE)
      [] kind = "toggler" /\ method = "hovered" -> toggler_hovered(self, style, TRUE)
      [] kind = "button" /\ method = "active" -> button_active(self, style)
      [] kind = "button" /\ method = "hovered" -> button_hovered(self, style)

\* The methods each style sheet implements.
Methods(kind) ==
    IF kind \in {"toggler", "button"} THEN {"active", "hovered"} ELSE {"appearance"}

\* The style descriptors of a widget kind that can be built from a palette.
Styles(kind, palette) ==
    CASE kind = "application" -> {palette}
      [] kind = "text" -> TextStyles(palette)
      [] OTHER -> ContainerStyles(palette)

Kinds == {"application", "text", "container", "toggler", "button"}

(***************************************************************************)
(* The button style sheets of tabs.rs (style::Tab) and text_button.rs      *)
(* (Style).  Their Style is the toolkit's own theme; its extended palette  *)
(* has a {color, text} pair for each strength of each kind, modelled as    *)
(* one distinct symbolic colour per entry.                                 *)
(***************************************************************************)
IcedThemes == {"iced::Light", "iced::Dark"}
PaletteKinds == {"background", "primary", "secondary", "success", "danger"}
Strengths == {"base", "weak", "strong"}

extended_palette(style) ==
    [k \in PaletteKinds |->
        [s \in Strengths |->
            [color |-> <<style, k, s, "color">>, text |-> <<style, k, s, "text">>]]]

\* button::Appearance::default()
button_Appearance_default ==
    [shadow_offset |-> <<0, 0>>, background |-> None, border_radius |-> 0,
     border_width |-> 0, border_color |-> <<"TRANSPARENT">>,
     text_color |-> <<"BLACK">>]

Tab_active(style) ==
    LET palette == extended_palette(style)
    IN  [button_Appearance_default EXCEPT
            !.background = Some(palette.background.strong.color),
            !.border_radius = 0,
            !.border_width = 0,
            !.text_color = palette.background.weak.text]

Tab_disabled(style) ==
    LET palette == extended_palette(style)
    IN  [button_Appearance_default EXCEPT
            !.background = Some(palette.background.base.color),
            !.border_radius = 0,
            !.border_width = 0,
            !.text_color = palette.background.strong.text]

Tab_hovered(style) ==
    LET palette == extended_palette(style)
    IN  [button_Appearance_default EXCEPT
            !.background = Some(palette.background.weak.color),
            !.border_radius = 0,
            !.border_width = 0,
            !.text_color = palette.background.strong.text]

\* Mutant: pressed is the resting appearance.
Tab_pressed_as_active(style) == Tab_active(style)

Tab_pressed(style) == Tab_disabled(style)

\* text_button::Style and the palette kind each variant is styled from.
TextButtonStyles == {"Primary", "Secondary", "Positive", "Destructive"}
StyleKind(self) ==
    CASE self = "Primary" -> "primary"
      [] self = "Secondary" -> "secondary"
      [] self = "Positive" -> "success"
      [] self = "Destructive" -> "danger"

\* button_appearance!(kind, strength, palette)
button_appearance(kind, strength, palette) ==
    [button_Appearance_default EXCEPT
        !.background = Some(palette[kind][strength].color),
        !.text_color = palette.primary.strong.text]

Style_active(self, style) ==
    button_appearance(StyleKind(self), "strong", extended_palette(style))
Style_pressed(self, style) ==
    button_appearance(StyleKind(self), "weak", extended_palette(style))
Style_hovered(self, style) ==
    button_appearance(StyleKind(self), "base", extended_palette(style))

\* The button style sheets and the methods each implements.
ButtonSheets == {"Tab"} \cup TextButtonStyles
ButtonMethods(sheet) ==
    IF sheet = "Tab" THEN {"active", "disabled", "hovered", "pressed"}
    ELSE {"active", "pressed", "hovered"}

ButtonAppearance(sheet, method, style) ==
    IF sheet = "Tab"
    THEN CASE method = "active" -> Tab_active(style)
           [] method = "disabled" -> Tab_disabled(style)
           [] method = "hovered" -> Tab_hovered(style)
           [] method = "pressed" -> Tab_pressed(style)
    ELSE CASE method = "active" -> Style_active(sheet, style)
           [] method = "pressed" -> Style_pressed(sheet, style)
           [] method = "hovered" -> Style_hovered(sheet, style)

(***************************************************************************)
(* crates/ui-util/src/color.rs: the later revision of the colour algebra   *)
(***************************************************************************)
color_lerp(a, b, t) ==
    LET ca == clamp(a, 0, One)
        cb == clamp(b, 0, One)
        ct == clamp(t, 0, One)
    IN  clamp(F32Add(ca, F32Mul(ct, F32Sub(cb, ca))), 0, One)

\* Mutant: alpha is passed through, as in the earlier revision.
Color_lerp_alpha_passthrough(self, other, t) ==
    [r |-> color_lerp(self.r, other.r, t),
     g |-> color_lerp(self.g, other.g, t),
     b |-> color_lerp(self.b, other.b, t),
     a |-> self.a]

\* ColorManipExt::lerp for Color
Color_lerp(self, other, t) ==
    [r |-> color_lerp(self.r, other.r, t),
     g |-> color_lerp(self.g, other.g, t),
     b |-> color_lerp(self.b, other.b, t),
     a |-> color_lerp(self.a, other.a, t)]

\* ColorManipExt::mute for Color
Color_mute(self, t) ==
    LET tt == unwrap_or(t, Quarter)
    IN  [r |-> color_lerp(self.r, Half, tt),
         g |-> color_lerp(self.g, Half, tt),
         b |-> color_lerp(self.b, Half, tt),
         a |-> self.a]

\* Palette::mute (the four-role palette of color.rs)
Palette_mute(self, t) ==
    [border |-> Color_mute(self.border, t),
     background |-> Color_mute(self.background, t),
     foreground |-> Color_mute(self.foreground, t),
     text |-> Color_mute(self.text, t)]

\* ContrastPalette::mute_dim and ::invert of color.rs
color_ContrastPalette_mute_dim(self, t) ==
    [bright |-> self.bright, dim |-> Color_mute(self.dim, t)]

color_ContrastPalette_invert(self) == [bright |-> self.dim, dim |-> self.bright]

(***************************************************************************)
(* Widgets.  An element is a record: text(s), button(content) with an      *)
(* Option press message, container(child), and the Row and Column groups.  *)
(***************************************************************************)
text(content) == [widget |-> "Text", content |-> content]
button(content) == [widget |-> "Button", content |-> content, on_press |-> None]
on_press(btn, msg) == [btn EXCEPT !.on_press = Some(msg)]
container(child) == [widget |-> "Container", child |-> child, max_width |-> None]
max_width(cont, w) == [cont EXCEPT !.max_width = Some(w)]

Row_new == [widget |-> "Row", children |-> << >>]
Column_new == [widget |-> "Column", children |-> << >>]
\* Mutant: a child equal to one already present is dropped.
push_unless_present(group, child) ==
    IF \E k \in 1 .. Len(group.children) : group.children[k] = child
    THEN group
    ELSE [group EXCEPT !.children = Append(@, child)]

push(group, child) == [group EXCEPT !.children = Append(@, child)]

\* Element::map on a tab header: the press message m becomes f(m).
Element_map(e, f) ==
    LET mapped(btn) ==
            [btn EXCEPT !.on_press = IF is_some(@) THEN Some(f[@[1]]) ELSE None]
    IN  IF e.widget = "Container"
        THEN [e EXCEPT !.child = mapped(@)]
        ELSE mapped(e)

\* The messages a press on the element can produce: those of its buttons that
\* were given a press message; a button without one is disabled.
RECURSIVE Pressable(_)
Pressable(e) ==
    CASE e.widget = "Button" -> IF is_some(e.on_press) THEN {e.on_press[1]} ELSE {}
      [] e.widget \in {"Row", "Column"} ->
            UNION {Pressable(e.children[k]) : k \in 1 .. Len(e.children)}
      [] e.widget = "Container" -> Pressable(e.child)
      [] e.widget = "Scrollable" -> Pressable(e.content)
      [] OTHER -> {}

(***************************************************************************)
(* crates/ui-util/src/lib.rs: IteratorWidgetExt                            *)
(***************************************************************************)
\* Iterator::fold with the closure |group, item| group.push(f(item)): the items
\* are pushed one by one, first to last.  The left fold over a list is the fold
\* over its second half started from the fold over its first half; it is
\* evaluated so, the first half being folded (its children counted) before the
\* second is entered, which keeps the evaluation shallow for a list of 128.
RECURSIVE fold_push(_, _, _)
fold_push(iter, group, f) ==
    IF iter = << >> THEN group
    ELSE IF Len(iter) = 1 THEN push(group, f[Head(iter)])
    ELSE LET half == Len(iter) \div 2
             first == fold_push(SubSeq(iter, 1, half), group, f)
         IN  IF Len(first.children) >= 0
             THEN fold_push(SubSeq(iter, half + 1, Len(iter)), first, f)
             ELSE first

collect_row(iter, f) == fold_push(iter, Row_new, f)
collect_column(iter, f) == fold_push(iter, Column_new, f)

\* Iterator::enumerate over a slice: the pairs (index, item), indices from 0.
enumerate(slice) == [k \in 1 .. Len(slice) |-> <<k - 1, slice[k]>>]

\* The items an iterator yields, as a set (the domain of the closure applied).
Yielded(iter) == {iter[k] : k \in 1 .. Len(iter)}

(***************************************************************************)
(* crates/ui-util/src/tabs.rs: Tabs                                        *)
(***************************************************************************)
\* Mutant: the assertion is missing.
ui_Tabs_new_unchecked(tabs, current, on_choice, content) ==
    [type |-> "ui_util::Tabs", tabs |-> tabs, current |-> current,
     on_choice |-> on_choice, content |-> content, horizontal |-> FALSE]

\* Tabs::new: asserts that current is an index of tabs.
ui_Tabs_new(tabs, current, on_choice, content) ==
    IF ~(current \in 0 .. Len(tabs) - 1)
    THEN Panic("assertion failed: (0..tabs.len()).contains(&current)")
    ELSE [type |-> "ui_util::Tabs", tabs |-> tabs, current |-> current,
          on_choice |-> on_choice, content |-> content, horizontal |-> FALSE]

\* The closure collect_row applies to each (index, tab) of the header row.
ui_tab_header(value) ==
    [it \in Yielded(enumerate(value.tabs)) |->
        LET index == it[1]
            tab == it[2]
            btn == IF index = value.current
                   THEN button(text(tab))
                   ELSE on_press(button(text(tab)), index)
        IN  Element_map(max_width(container(btn), 150), value.on_choice)]

\* impl From<Tabs> for Element
ui_Tabs_into(value) ==
    IF value.horizontal THEN todo
    ELSE IF ~(value.current \in 0 .. Len(value.tabs) - 1)
    THEN Panic("index out of bounds")
    ELSE container(
            push(push(Column_new,
                      collect_row(enumerate(value.tabs), ui_tab_header(value))),
                 value.content[value.tabs[value.current + 1]]))

(***************************************************************************)
(* crates/app/src/lib.rs: the builder-style Tabs                           *)
(***************************************************************************)
app_Tabs_new ==
    [type |-> "app::Tabs", tabs |-> None, current |-> None,
     on_choice |-> None, content |-> None]

app_Tabs_current(self, current) == [self EXCEPT !.current = Some(current)]
app_Tabs_tabs(self, tabs) == [self EXCEPT !.tabs = Some(tabs)]
app_Tabs_on_choice(self, on_choice) == [self EXCEPT !.on_choice = Some(on_choice)]
app_Tabs_content(self, content) == [self EXCEPT !.content = Some(content)]

\* Mutant: the selected tab keeps its press handler.
app_tab_header_pressable(tabs, current, on_choice) ==
    [it \in Yielded(enumerate(tabs)) |->
        Element_map(on_press(button(text(it[2])), it[1]), on_choice)]

\* Mutant: a header presses to the index after its own.
app_tab_header_off_by_one(tabs, current, on_choice) ==
    [it \in Yielded(enumerate(tabs)) |->
        LET index == it[1]
            tab == it[2]
            btn == IF index = current
                   THEN button(text(tab))
                   ELSE on_press(button(text(tab)), index + 1)
        IN  Element_map(btn, on_choice)]

app_tab_header(tabs, current, on_choice) ==
    [it \in Yielded(enumerate(tabs)) |->
        LET index == it[1]
            tab == it[2]
            btn == IF index = current
                   THEN button(text(tab))
                   ELSE on_press(button(text(tab)), index)
        IN  Element_map(btn, on_choice)]

\* Mutant: a missing current index is taken to be 0.
app_Tabs_into_default_current(value) ==
    IF ~is_some(value.tabs) THEN Panic("no tabs given to Tabs")
    ELSE IF ~is_some(value.on_choice) THEN Panic("no on_choice given to Tabs")
    ELSE IF ~is_some(value.content) THEN Panic("no content function given to Tabs")
    ELSE LET tabs == value.tabs[1]
             current == unwrap_or(value.current, 0)
             on_choice == value.on_choice[1]
             content == value.content[1]
         IN  IF ~(current \in 0 .. Len(tabs) - 1)
             THEN Panic("index out of bounds")
             ELSE push(push(Column_new,
                            collect_row(enumerate(tabs),
                                        app_tab_header(tabs, current, on_choice))),
                       content[tabs[current + 1]])

\* impl From<Tabs> for Element
app_Tabs_into(value) ==
    IF ~is_some(value.tabs) THEN Panic("no tabs given to Tabs")
    ELSE IF ~is_some(value.current) THEN Panic("not current given to Tabs")
    ELSE IF ~is_some(value.on_choice) THEN Panic("no on_choice given to Tabs")
    ELSE IF ~is_some(value.content) THEN Panic("no content function given to Tabs")
    ELSE LET tabs == value.tabs[1]
             current == value.current[1]
             on_choice == value.on_choice[1]
             content == value.content[1]
         IN  IF ~(current \in 0 .. Len(tabs) - 1)
             THEN Panic("index out of bounds")
             ELSE push(push(Column_new,
                            collect_row(enumerate(tabs),
                                        app_tab_header(tabs, current, on_choice))),
                       content[tabs[current + 1]])

(***************************************************************************)
(* crates/ui-util/src/text_button.rs: TextButton                           *)
(* `factory` tells whether the OnPress type parameter is a message factory *)
(* (Fn() -> Message) or the unit type; a factory is the message it makes.  *)
(***************************************************************************)
\* AnyWithExt::with: if_some(self, value) when the value is there, else self.
with(self, value, field) ==
    IF is_some(value) THEN [self EXCEPT ![field] = value[1]] ELSE self

\* TextButton::default()
TextButton_default(factory) ==
    [type |-> "TextButton", factory |-> factory, content |-> "",
     on_press |-> None, width |-> None, height |-> None, padding |-> None,
     style |-> "Primary"]

TextButton_new(content) ==
    [TextButton_default(FALSE) EXCEPT !.content = content]

TextButton_new_with_on_press(content, factory) ==
    [TextButton_default(TRUE) EXCEPT !.content = content, !.on_press = Some(factory)]

TextButton_width(self, width) == [self EXCEPT !.width = Some(width)]
TextButton_height(self, height) == [self EXCEPT !.height = Some(height)]
TextButton_padding(self, padding) == [self EXCEPT !.padding = Some(padding)]
TextButton_style(self, style) == [self EXCEPT !.style = style]

\* TextButton::button: a Button<()> of the toolkit's default size unless set.
TextButton_button(content, width, height, padding, style) ==
    LET plain == [widget |-> "Button", content |-> text(content), on_press |-> None,
                  width |-> "Shrink", height |-> "Shrink", padding |-> 5,
                  style |-> "Primary"]
        sized == with(with(plain, width, "width"), height, "height")
    IN  [sized EXCEPT !.padding = unwrap_or(padding, 3),
                      !.style = [custom |-> style]]

TextButton_missing_on_press ==
    Panic("when a bookmark_ui_util::button::Button has a <Fn() -> Message> OnPress generic parameter the on_press field should always have a value specified")

\* Mutant: without a factory the button is built with no press handler.
TextButton_into_lenient(value) ==
    IF value.factory /\ is_some(value.on_press)
    THEN Element_map(
            on_press(TextButton_button(value.content, value.width, value.height,
                                       value.padding, value.style), "()"),
            [u \in {"()"} |-> value.on_press[1]])
    ELSE TextButton_button(value.content, value.width, value.height,
                           value.padding, value.style)

\* Mutant: the button of the unit OnPress is given the press handler too.
TextButton_into_always_pressable(value) ==
    IF value.factory
    THEN IF ~is_some(value.on_press) THEN TextButton_missing_on_press
         ELSE Element_map(
                on_press(TextButton_button(value.content, value.width, value.height,
                                           value.padding, value.style), "()"),
                [u \in {"()"} |-> value.on_press[1]])
    ELSE on_press(TextButton_button(value.content, value.width, value.height,
                                    value.padding, value.style), "()")

\* impl From<TextButton<Message, OnPress>> for Element, for a factory OnPress and
\* for the unit OnPress.
TextButton_into(value) ==
    IF value.factory
    THEN IF ~is_some(value.on_press) THEN TextButton_missing_on_press
         ELSE Element_map(
                on_press(TextButton_button(value.content, value.width, value.height,
                                           value.padding, value.style), "()"),
                [u \in {"()"} |-> value.on_press[1]])
    ELSE TextButton_button(value.content, value.width, value.height,
                           value.padding, value.style)

(***************************************************************************)
(* crates/data/src/lib.rs and crates/app/src/lib.rs: FileData, App         *)
(* A Result is [ok |-> value] or [err |-> error].  A Command is the        *)
(* sequence of the futures it performs, each with the message constructor  *)
(* its output is mapped through.                                            *)
(***************************************************************************)
Ok(x) == [ok |-> x]
Err(e) == [err |-> e]
is_ok(r) == "ok" \in DOMAIN r

\* Longest list of startup files.
MaxFiles == 2

\* Most presses of the user on the view, and most AddTab messages sent.
MaxPresses == 2
MaxAdded == 1

\* The names AddTab messages carry.
TabNames == {"bookmarks", "notes"}

\* The files of the environment: two bookmark files, one that is not MessagePack
\* of a FileData, and one that does not exist.
Paths == {"a.bm", "b.bm", "corrupt.bm", "missing.bm"}

BookmarkData(url, uuid) == [url |-> url, info |-> "", uuid |-> uuid, tag |-> << >>]

FileData_a ==
    [tag |-> << >>, category |-> << >>,
     bookmark |-> <<BookmarkData("https://a/1", 1), BookmarkData("https://a/2", 2)>>]
FileData_b ==
    [tag |-> << >>, category |-> << >>, bookmark |-> <<BookmarkData("https://b/1", 3)>>]

\* A file of n bookmarks, each with its own url and uuid.
FileData_sized(n) ==
    [tag |-> << >>, category |-> << >>,
     bookmark |-> [k \in 1 .. n |-> BookmarkData("https://n/" \o ToString(k), 100 + k)]]

\* FileData::load: fs::read, then rmp_serde::from_slice; either can fail.
FileData_load(path) ==
    CASE path = "a.bm" -> Ok(FileData_a)
      [] path = "b.bm" -> Ok(FileData_b)
      [] path = "corrupt.bm" -> Err("RmpDeserialize")
      [] path = "missing.bm" -> Err("IO")

\* Message: the constructor f applied to x.
Message(f, x) ==
    CASE f = "FileLoaded" -> [type |-> "FileLoaded", result |-> x]
      [] f = "LoadFile" -> [type |-> "LoadFile", file |-> x]
      [] f = "OpenBookmark" -> [type |-> "OpenBookmark", id |-> x]
      [] f = "AddTab" -> [type |-> "AddTab", name |-> x]
      [] f = "SelTab" -> [type |-> "SelTab", tab |-> x]

\* The two futures the application performs: async move { file }, and
\* FileData::load(file).
ready(value) == [async |-> "ready", value |-> value]
load(path) == [async |-> "FileData::load", path |-> path]
FutureOutput(future) ==
    IF future.async = "ready" THEN future.value ELSE FileData_load(future.path)

Command_none == << >>
Command_perform(future, f) == <<[future |-> future, map |-> f]>>
RECURSIVE Command_batch(_)
Command_batch(commands) ==
    IF commands = << >> THEN << >>
    ELSE Head(commands) \o Command_batch(Tail(commands))

App_default == [data |-> None, tabs |-> << >>, selected_tab |-> 0]

\* App::new
App_new(fl) ==
    [state |-> [App_default EXCEPT !.tabs = <<"bookmarks", "edit", "log">>],
     command |->
        IF fl.files = << >> THEN Command_none
        ELSE Command_batch([k \in 1 .. Len(fl.files) |->
                                Command_perform(ready(fl.files[k]), "LoadFile")])]

\* The first bookmark with the uuid, as Iterator::find gives it.
find_bookmark(bookmark, id) ==
    LET hits == {k \in 1 .. Len(bookmark) : bookmark[k].uuid = id}
    IN  IF hits = {} THEN None
        ELSE Some(bookmark[CHOOSE k \in hits : \A j \in hits : k <= j])

\* Mutant: a failed load clears the data.
update_clearing(self, message) ==
    CASE message.type = "FileLoaded" /\ is_ok(message.result) ->
            [state |-> [self EXCEPT !.data = Some(message.result.ok)],
             command |-> Command_none, printed |-> None]
      [] message.type = "FileLoaded" /\ ~is_ok(message.result) ->
            [state |-> [self EXCEPT !.data = None], command |-> Command_none,
             printed |-> Some(<<"failed to load file data", message.result.err>>)]
      [] message.type = "LoadFile" ->
            [state |-> self,
             command |-> Command_perform(load(message.file), "FileLoaded"),
             printed |-> None]
      [] message.type = "OpenBookmark" ->
            [state |-> self, command |-> Command_none, printed |-> None]
      [] message.type = "AddTab" ->
            [state |-> [self EXCEPT !.tabs = Append(@, message.name)],
             command |-> Command_none, printed |-> None]
      [] message.type = "SelTab" ->
            [state |-> [self EXCEPT !.selected_tab = message.tab],
             command |-> Command_none, printed |-> None]

\* Mutant: LoadFile loads the file twice.
update_loading_twice(self, message) ==
    CASE message.type = "FileLoaded" /\ is_ok(message.result) ->
            [state |-> [self EXCEPT !.data = Some(message.result.ok)],
             command |-> Command_none, printed |-> None]
      [] message.type = "FileLoaded" /\ ~is_ok(message.result) ->
            [state |-> self, command |-> Command_none,
             printed |-> Some(<<"failed to load file data", message.result.err>>)]
      [] message.type = "LoadFile" ->
            [state |-> self,
             command |-> Command_batch(<<Command_perform(load(message.file), "FileLoaded"),
                                         Command_perform(load(message.file), "FileLoaded")>>),
             printed |-> None]
      [] message.type = "OpenBookmark" ->
            [state |-> self, command |-> Command_none, printed |-> None]
      [] message.type = "AddTab" ->
            [state |-> [self EXCEPT !.tabs = Append(@, message.name)],
             command |-> Command_none, printed |-> None]
      [] message.type = "SelTab" ->
            [state |-> [self EXCEPT !.selected_tab = message.tab],
             command |-> Command_none, printed |-> None]

\* Mutant: data once loaded is kept, a later load is dropped.
update_keeping_first(self, message) ==
    CASE message.type = "FileLoaded" /\ is_ok(message.result) ->
            [state |-> [self EXCEPT !.data = IF is_some(@) THEN @
                                             ELSE Some(message.result.ok)],
             command |-> Command_none, printed |-> None]
      [] message.type = "FileLoaded" /\ ~is_ok(message.result) ->
            [state |-> self, command |-> Command_none,
             printed |-> Some(<<"failed to load file data", message.result.err>>)]
      [] message.type = "LoadFile" ->
            [state |-> self,
             command |-> Command_perform(load(message.file), "FileLoaded"),
             printed |-> None]
      [] message.type = "OpenBookmark" ->
            [state |-> self, command |-> Command_none, printed |-> None]
      [] message.type = "AddTab" ->
            [state |-> [self EXCEPT !.tabs = Append(@, message.name)],
             command |-> Command_none, printed |-> None]
      [] message.type = "SelTab" ->
            [state |-> [self EXCEPT !.selected_tab = message.tab],
             command |-> Command_none, printed |-> None]

\* Mutant: AddTab also selects the tab it adds.
update_selecting_added(self, message) ==
    CASE message.type = "FileLoaded" /\ is_ok(message.result) ->
            [state |-> [self EXCEPT !.data = Some(message.result.ok)],
             command |-> Command_none, printed |-> None]
      [] message.type = "FileLoaded" /\ ~is_ok(message.result) ->
            [state |-> self, command |-> Command_none,
             printed |-> Some(<<"failed to load file data", message.result.err>>)]
      [] message.type = "LoadFile" ->
            [state |-> self,
             command |-> Command_perform(load(message.file), "FileLoaded"),
             printed |-> None]
      [] message.type = "OpenBookmark" ->
            [state |-> self, command |-> Command_none, printed |-> None]
      [] message.type = "AddTab" ->
            [state |-> [self EXCEPT !.tabs = Append(@, message.name),
                                    !.selected_tab = Len(self.tabs)],
             command |-> Command_none, printed |-> None]
      [] message.type = "SelTab" ->
            [state |-> [self EXCEPT !.selected_tab = message.tab],
             command |-> Command_none, printed |-> None]

\* App::update: the state after the message, the command returned and the line
\* printed, if any.
update(self, message) ==
    CASE message.type = "FileLoaded" /\ is_ok(message.result) ->
            [state |-> [self EXCEPT !.data = Some(message.result.ok)],
             command |-> Command_none, printed |-> None]
      [] message.type = "FileLoaded" /\ ~is_ok(message.result) ->
            [state |-> self, command |-> Command_none,
             printed |-> Some(<<"failed to load file data", message.result.err>>)]
      [] message.type = "LoadFile" ->
            [state |-> self,
             command |-> Command_perform(load(message.file), "FileLoaded"),
             printed |-> None]
      [] message.type = "OpenBookmark" ->
            [state |-> self, command |-> Command_none,
             printed |->
                IF is_some(self.data)
                THEN LET found == find_bookmark(self.data[1].bookmark, message.id)
                     IN  IF is_some(found) THEN Some(<<"Open", found[1].url>>)
                         ELSE Some(<<"could not find bookmark">>)
                ELSE None]
      [] message.type = "AddTab" ->
            [state |-> [self EXCEPT !.tabs = Append(@, message.name)],
             command |-> Command_none, printed |-> None]
      [] message.type = "SelTab" ->
            [state |-> [self EXCEPT !.selected_tab = message.tab],
             command |-> Command_none, printed |-> None]

\* Mutant: take yields every item.
take_all(iter, n) == iter

\* Iterator::take
take(iter, n) == IF Len(iter) <= n THEN iter ELSE SubSeq(iter, 1, n)

\* The element App::view returns while no data is loaded.
NoDataLoaded ==
    [widget |-> "Container", child |-> text("no data loaded"), max_width |-> None,
     width |-> "Fill", height |-> "Fill", center_x |-> TRUE, center_y |-> TRUE]

\* The button view makes of a bookmark: text(url) in a button pressing to the
\* uuid, styled as text, its message mapped through Message::OpenBookmark.
bookmark_button(bookmark) ==
    Element_map(
        [widget |-> "Button", content |-> text(bookmark.url),
         on_press |-> Some(bookmark.uuid), style |-> "theme::Button::Text"],
        [id \in {bookmark.uuid} |-> Message("OpenBookmark", id)])

\* The content closure of App::view.
view_content(file_data, tab_state) ==
    IF tab_state = "bookmarks"
    THEN LET shown == take(file_data.bookmark, 128)
             column == collect_column(shown,
                            [b \in Yielded(shown) |-> bookmark_button(b)])
         IN  [widget |-> "Scrollable",
              content |-> [widget |-> "Column", children |-> column.children,
                           width |-> "Fill"]]
    ELSE text("no content")

\* App::view
view(self) ==
    IF ~is_some(self.data) THEN NoDataLoaded
    ELSE LET file_data == self.data[1]
             builder ==
                app_Tabs_content(
                    app_Tabs_tabs(
                        app_Tabs_current(
                            app_Tabs_on_choice(app_Tabs_new,
                                [i \in 0 .. Len(self.tabs) |-> Message("SelTab", i)]),
                            self.selected_tab),
                        self.tabs),
                    [tab_state \in Yielded(self.tabs) |->
                        view_content(file_data, tab_state)])
         IN  app_Tabs_into(builder)

\* Before the application is created; the history: the message update handled
\* last and the line it printed, counts per file, the FileData of the last
\* FileLoaded(Ok) handled, and the counts of presses and of AddTab messages.
NoApp == [created |-> FALSE]
NoFlags == [files |-> << >>]
NoHist ==
    [last |-> None, printed |-> None,
     issued |-> [f \in Paths |-> 0],
     requested |-> [f \in Paths |-> 0],
     dispatched |-> [f \in Paths |-> 0],
     delivered |-> [f \in Paths |-> 0],
     handled |-> 0, loaded |-> None, pressed |-> 0, added |-> 0]

AppIdle ==
    /\ flags = NoFlags
    /\ app = NoApp
    /\ tasks = << >>
    /\ inbox = << >>
    /\ hist = NoHist

(***************************************************************************)
(* Inputs of the composition probe                                         *)
(***************************************************************************)
\* Longest tab list composed.
MaxTabs == 3
\* Longest item sequence folded into a row or a column.
MaxItems == 3

Labels == {"a", "b", "c"}

RECURSIVE SeqsUpTo(_, _)
SeqsUpTo(S, n) ==
    IF n = 0 THEN {<< >>}
    ELSE LET shorter == SeqsUpTo(S, n - 1)
         IN  shorter \cup {Append(q, x) : q \in {z \in shorter : Len(z) = n - 1}, x \in S}

TabLists == SeqsUpTo(Labels, MaxTabs)
\* usize values passed as the current index: every index and two past the end.
Indices == 0 .. MaxTabs + 1

\* Selection callbacks: the application's Message::SelTab and another constructor.
OnChoices ==
    {[i \in Indices |-> [type |-> "SelTab", tab |-> i]],
     [i \in Indices |-> [type |-> "Chosen", tab |-> i + 10]]}

\* Content functions: one that shows the label, one that ignores it.
Contents ==
    {[l \in Labels |-> text(l)], [l \in Labels |-> text("no content")]}

\* Per-item transforms folded by collect_row and collect_column.
Transforms ==
    {[l \in Labels |-> text(l)], [l \in Labels |-> button(text(l))],
     [l \in Labels |-> text("same")]}

\* Message factories given to TextButton::new_with_on_press, each the message
\* it returns.
Factories == {[type |-> "AddTab", name |-> "new"], [type |-> "SelTab", tab |-> 0]}

(***************************************************************************)
(* Inputs of the style probe                                               *)
(***************************************************************************)
\* 0.75, 0.125, 0.375, 0.875, 1.25 and the f32 nearest 0.1 (0x3dcccccd)
ThreeQuarters == f32(3, -2)
Eighth == f32(1, -3)
ThreeEighths == f32(3, -3)
SevenEighths == f32(7, -3)
FiveQuarters == f32(5, -2)
Tenth == f32(13421773, -27)

\* Channel values: 0, 1, 1/2, 1/4, 3/4, 0.1f32, the three nearest f32 values on
\* either side of 1/2 (1/2 + k * 2^-24 and 1/2 - k * 2^-25, which are the bit
\* patterns next to that of 1/2), and two values outside [0, 1].
NearHalf == {Half + 1, Half + 2, Half + 3, Half - 1, Half - 2, Half - 3}

ChanVals ==
    {0, One, Half, Quarter, ThreeQuarters, Tenth, -Quarter, FiveQuarters}
        \cup NearHalf

\* The g, b and a channels vary together over a few combinations.
Colors ==
    {[r |-> cr, g |-> gba[1], b |-> gba[2], a |-> gba[3]] :
        cr \in ChanVals,
        gba \in {<<0, One, One>>, <<Tenth, Half, ThreeQuarters>>,
                 <<Half - 1, 0, FiveQuarters>>}}
        \cup {White, Black}

BrightColors ==
    {White, Black, [r |-> One, g |-> 0, b |-> One, a |-> One],
     [r |-> Half + 1, g |-> Tenth, b |-> Half, a |-> 0]}

Palettes == [bright : BrightColors, dim : Colors]

\* Option<f32> factors: absent, 0, 1/4, 1/2, 3/4, 1, two values outside [0, 1],
\* 1/8, 3/8, the f32 nearest 0.1, and 2^-30.
TVals ==
    {None} \cup {Some(f32(k, -2)) : k \in -1 .. 5}
        \cup {Some(Eighth), Some(ThreeEighths), Some(Tenth), Some(f32(1, -30))}

\* A four-role Palette over the two colours of a contrast palette, the way the
\* light theme assigns them.
RolePalette(palette) ==
    [border |-> palette.dim, background |-> palette.bright,
     foreground |-> palette.dim, text |-> palette.dim]

NoStyle == [kind |-> "none"]

(***************************************************************************)
(* The style probe: one action per function, applied to the input palette. *)
(* A call records its arguments (the defaults for those it does not take)  *)
(* and the value it returned; each call is made on the fresh input.        *)
(***************************************************************************)
Unit == [unit |-> TRUE]
NoWidget == [type |-> "none"]

ComposeIdle == widget = NoWidget /\ element = Unit

InitStyle ==
    /\ inPalette \in Palettes
    /\ inTheme = "Light"
    /\ inT = None
    /\ inStyle = NoStyle
    /\ call = "init"
    /\ ret = Unit
    /\ ComposeIdle
    /\ AppIdle

Call_mute_color ==
    \E tt \in TVals :
        /\ call = "init"
        /\ call' = "mute_color"
        /\ inT' = tt
        /\ ret' = mute_color(inPalette.dim, tt)
        /\ UNCHANGED <<inPalette, inTheme, inStyle, composeVars, appVars>>

Call_Color_mute ==
    \E tt \in TVals :
        /\ call = "init"
        /\ call' = "Color::mute"
        /\ inT' = tt
        /\ ret' = Color_mute(inPalette.dim, tt)
        /\ UNCHANGED <<inPalette, inTheme, inStyle, composeVars, appVars>>

Call_mute_dim ==
    \E tt \in TVals :
        /\ call = "init"
        /\ call' = "ContrastPalette::mute_dim"
        /\ inT' = tt
        /\ ret' = ContrastPalette_mute_dim(inPalette, tt)
        /\ UNCHANGED <<inPalette, inTheme, inStyle, composeVars, appVars>>

Call_color_mute_dim ==
    \E tt \in TVals :
        /\ call = "init"
        /\ call' = "color::ContrastPalette::mute_dim"
        /\ inT' = tt
        /\ ret' = color_ContrastPalette_mute_dim(inPalette, tt)
        /\ UNCHANGED <<inPalette, inTheme, inStyle, composeVars, appVars>>

Call_Palette_mute ==
    \E tt \in TVals :
        /\ call = "init"
        /\ call' = "Palette::mute"
        /\ inT' = tt
        /\ ret' = Palette_mute(RolePalette(inPalette), tt)
        /\ UNCHANGED <<inPalette, inTheme, inStyle, composeVars, appVars>>

Call_from_contrast_palette ==
    \E th \in Themes :
        /\ call = "init"
        /\ call' = "BoxPalette::from_contrast_palette"
        /\ inTheme' = th
        /\ ret' = BoxPalette_from_contrast_palette(th, inPalette)
        /\ UNCHANGED <<inPalette, inT, inStyle, composeVars, appVars>>

Call_box_palette ==
    \E th \in Themes :
        /\ call = "init"
        /\ call' = "Theme::box_palette"
        /\ inTheme' = th
        /\ ret' = Theme_box_palette(th)
        /\ UNCHANGED <<inPalette, inT, inStyle, composeVars, appVars>>

Call_appearance ==
    \E th \in Themes, kind \in Kinds :
        \E method \in Methods(kind), st \in Styles(kind, inPalette) :
            /\ call = "init"
            /\ call' = "appearance"
            /\ inTheme' = th
            /\ inStyle' = [kind |-> kind, method |-> method, style |-> st]
            /\ ret' = Appearance(th, kind, method, st)
            /\ UNCHANGED <<inPalette, inT, composeVars, appVars>>

\* p.invert(), and .invert() again on the palette it returned.
Call_invert ==
    /\ call \in {"init", "ContrastPalette::invert"}
    /\ IF call = "init"
       THEN /\ call' = "ContrastPalette::invert"
            /\ ret' = ContrastPalette_invert(inPalette)
       ELSE /\ call' = "ContrastPalette::invert::invert"
            /\ ret' = ContrastPalette_invert(ret)
    /\ UNCHANGED <<inPalette, inTheme, inT, inStyle, composeVars, appVars>>

Call_color_invert ==
    /\ call \in {"init", "color::ContrastPalette::invert"}
    /\ IF call = "init"
       THEN /\ call' = "color::ContrastPalette::invert"
            /\ ret' = color_ContrastPalette_invert(inPalette)
       ELSE /\ call' = "color::ContrastPalette::invert::invert"
            /\ ret' = color_ContrastPalette_invert(ret)
    /\ UNCHANGED <<inPalette, inTheme, inT, inStyle, composeVars, appVars>>

\* A method of a custom button style sheet, called with the toolkit's theme.
Call_button_style ==
    \E sheet \in ButtonSheets, th \in IcedThemes :
        \E method \in ButtonMethods(sheet) :
            /\ call = "init"
            /\ call' = "button::StyleSheet"
            /\ inTheme' = th
            /\ inStyle' = [kind |-> "button::StyleSheet", method |-> method,
                           style |-> [sheet |-> sheet]]
            /\ ret' = ButtonAppearance(sheet, method, th)
            /\ UNCHANGED <<inPalette, inT, composeVars, appVars>>

NextStyle ==
    \/ Call_mute_color
    \/ Call_Color_mute
    \/ Call_mute_dim
    \/ Call_color_mute_dim
    \/ Call_Palette_mute
    \/ Call_from_contrast_palette
    \/ Call_box_palette
    \/ Call_appearance
    \/ Call_invert
    \/ Call_color_invert
    \/ Call_button_style

SpecStyle == InitStyle /\ [][NextStyle]_vars

(***************************************************************************)
(* The interpolation probe: the scalar lerp of both revisions applied to   *)
(* the red channels of two colours (a = dim.r, b = bright.r), and the      *)
(* colour lerp and mute of color.rs applied to the colours themselves.     *)
(***************************************************************************)
\* Channel values: 0, 1, 1/2, 1/4, 0.1f32, 3 * 2^-27, (1 - 2^-22) / 8,
\* 0x1.8f8c06p-1, the smallest subnormal 2^-149, and three values outside
\* [0, 1], the infinity among them.
LerpVals ==
    {0, One, Half, Quarter, Tenth, f32(3, -27), f32(2^22 - 1, -25),
     f32(13092355, -24), f32(1, -149), -Quarter, FiveQuarters, Inf}

LerpAlphas == {One, Tenth, f32(3, -27), FiveQuarters}

LerpColors == {[r |-> v, g |-> 0, b |-> One, a |-> w] : v \in LerpVals, w \in LerpAlphas}

LerpPalettes ==
    {[bright |-> c2, dim |-> c1] : c1 \in LerpColors,
        c2 \in {c \in LerpColors : c.a \in {One, f32(3, -27)}}}

\* f32 factors: -1/4, 0, 1/4, 1/2, 3/4, 1, 5/4, and 1/8, 3/8 and the f32
\* nearest 0.1, and 2^-30.
LerpFactors ==
    {f32(k, -2) : k \in -1 .. 5} \cup {Eighth, ThreeEighths, Tenth, f32(1, -30)}

Scalar(x) == [value |-> x]

InitLerp ==
    /\ inPalette \in LerpPalettes
    /\ inTheme = "Light"
    /\ inT = None
    /\ inStyle = NoStyle
    /\ call = "init"
    /\ ret = Unit
    /\ ComposeIdle
    /\ AppIdle

Call_lerp ==
    \E tt \in LerpFactors :
        /\ call = "init"
        /\ call' = "lerp"
        /\ inT' = Some(tt)
        /\ ret' = Scalar(lerp(inPalette.dim.r, inPalette.bright.r, tt))
        /\ UNCHANGED <<inPalette, inTheme, inStyle, composeVars, appVars>>

Call_color_lerp ==
    \E tt \in LerpFactors :
        /\ call = "init"
        /\ call' = "color::lerp"
        /\ inT' = Some(tt)
        /\ ret' = Scalar(color_lerp(inPalette.dim.r, inPalette.bright.r, tt))
        /\ UNCHANGED <<inPalette, inTheme, inStyle, composeVars, appVars>>

Call_Color_lerp ==
    \E tt \in LerpFactors :
        /\ call = "init"
        /\ call' = "Color::lerp"
        /\ inT' = Some(tt)
        /\ ret' = Color_lerp(inPalette.dim, inPalette.bright, tt)
        /\ UNCHANGED <<inPalette, inTheme, inStyle, composeVars, appVars>>

NextLerp ==
    \/ Call_lerp
    \/ Call_color_lerp
    \/ Call_Color_lerp
    \/ Call_Color_mute

SpecLerp == InitLerp /\ [][NextLerp]_vars

(***************************************************************************)
(* The composition probe: the builders' constructors, setters and          *)
(* conversions, and the two folds.                                          *)
(***************************************************************************)
StyleIdle ==
    /\ inPalette = ContrastPalette_monochrome
    /\ inTheme = "Light"
    /\ inT = None
    /\ inStyle = NoStyle
    /\ call = "init"
    /\ ret = Unit

InitCompose == StyleIdle /\ ComposeIdle /\ AppIdle

\* ui-util: Tabs::new(tabs, current, on_choice, content); a failed assertion
\* leaves no widget.
Ui_Tabs_new ==
    /\ widget = NoWidget
    /\ element = Unit
    /\ \E tabs \in TabLists, current \in Indices, oc \in OnChoices, ct \in Contents :
            LET made == ui_Tabs_new(tabs, current, oc, ct)
            IN  /\ IF IsPanic(made)
                   THEN /\ widget' = [type |-> "panicked", tabs |-> tabs,
                                      current |-> current]
                        /\ element' = made
                   ELSE /\ widget' = made
                        /\ element' = element
                /\ UNCHANGED <<styleVars, appVars>>

Ui_Tabs_into ==
    /\ widget.type = "ui_util::Tabs"
    /\ element = Unit
    /\ element' = ui_Tabs_into(widget)
    /\ UNCHANGED <<widget, styleVars, appVars>>

App_Tabs_new ==
    /\ widget = NoWidget
    /\ element = Unit
    /\ widget' = app_Tabs_new
    /\ UNCHANGED <<element, styleVars, appVars>>

App_Tabs_current ==
    /\ widget.type = "app::Tabs"
    /\ element = Unit
    /\ \E current \in Indices :
            /\ widget' = app_Tabs_current(widget, current)
            /\ UNCHANGED <<element, styleVars, appVars>>

App_Tabs_tabs ==
    /\ widget.type = "app::Tabs"
    /\ element = Unit
    /\ \E tabs \in TabLists :
            /\ widget' = app_Tabs_tabs(widget, tabs)
            /\ UNCHANGED <<element, styleVars, appVars>>

App_Tabs_on_choice ==
    /\ widget.type = "app::Tabs"
    /\ element = Unit
    /\ \E oc \in OnChoices :
            /\ widget' = app_Tabs_on_choice(widget, oc)
            /\ UNCHANGED <<element, styleVars, appVars>>

App_Tabs_content ==
    /\ widget.type = "app::Tabs"
    /\ element = Unit
    /\ \E ct \in Contents :
            /\ widget' = app_Tabs_content(widget, ct)
            /\ UNCHANGED <<element, styleVars, appVars>>

App_Tabs_into ==
    /\ widget.type = "app::Tabs"
    /\ element = Unit
    /\ element' = app_Tabs_into(widget)
    /\ UNCHANGED <<widget, styleVars, appVars>>

Collect_row ==
    /\ widget = NoWidget
    /\ element = Unit
    /\ \E iter \in SeqsUpTo(Labels, MaxItems), f \in Transforms :
            /\ widget' = [type |-> "iter", iter |-> iter, f |-> f]
            /\ element' = collect_row(iter, f)
            /\ UNCHANGED <<styleVars, appVars>>

Collect_column ==
    /\ widget = NoWidget
    /\ element = Unit
    /\ \E iter \in SeqsUpTo(Labels, MaxItems), f \in Transforms :
            /\ widget' = [type |-> "iter", iter |-> iter, f |-> f]
            /\ element' = collect_column(iter, f)
            /\ UNCHANGED <<styleVars, appVars>>

TextButton_Default ==
    /\ widget = NoWidget
    /\ element = Unit
    /\ widget' = TextButton_default(TRUE)
    /\ UNCHANGED <<element, styleVars, appVars>>

TextButton_New ==
    /\ widget = NoWidget
    /\ element = Unit
    /\ \E content \in Labels :
            /\ widget' = TextButton_new(content)
            /\ UNCHANGED <<element, styleVars, appVars>>

TextButton_New_with_on_press ==
    /\ widget = NoWidget
    /\ element = Unit
    /\ \E content \in Labels, factory \in Factories :
            /\ widget' = TextButton_new_with_on_press(content, factory)
            /\ UNCHANGED <<element, styleVars, appVars>>

TextButton_Width ==
    /\ widget.type = "TextButton"
    /\ element = Unit
    /\ widget' = TextButton_width(widget, "Fill")
    /\ UNCHANGED <<element, styleVars, appVars>>

TextButton_Height ==
    /\ widget.type = "TextButton"
    /\ element = Unit
    /\ widget' = TextButton_height(widget, "Fill")
    /\ UNCHANGED <<element, styleVars, appVars>>

TextButton_Padding ==
    /\ widget.type = "TextButton"
    /\ element = Unit
    /\ widget' = TextButton_padding(widget, 8)
    /\ UNCHANGED <<element, styleVars, appVars>>

TextButton_Style ==
    /\ widget.type = "TextButton"
    /\ element = Unit
    /\ \E style \in TextButtonStyles :
            /\ widget' = TextButton_style(widget, style)
            /\ UNCHANGED <<element, styleVars, appVars>>

TextButton_Into ==
    /\ widget.type = "TextButton"
    /\ element = Unit
    /\ element' = TextButton_into(widget)
    /\ UNCHANGED <<widget, styleVars, appVars>>

\* A press on a button of the element built: the message of the button is
\* produced.
Element_press ==
    /\ "widget" \in DOMAIN element
    /\ Len(inbox) < MaxPresses
    /\ \E message \in Pressable(element) :
            inbox' = Append(inbox, message)
    /\ UNCHANGED <<flags, app, tasks, hist, styleVars, composeVars>>

NextCompose ==
    \/ Ui_Tabs_new
    \/ Ui_Tabs_into
    \/ App_Tabs_new
    \/ App_Tabs_current
    \/ App_Tabs_tabs
    \/ App_Tabs_on_choice
    \/ App_Tabs_content
    \/ App_Tabs_into
    \/ Collect_row
    \/ Collect_column
    \/ TextButton_Default
    \/ TextButton_New
    \/ TextButton_New_with_on_press
    \/ TextButton_Width
    \/ TextButton_Height
    \/ TextButton_Padding
    \/ TextButton_Style
    \/ TextButton_Into
    \/ Element_press

SpecCompose == InitCompose /\ [][NextCompose]_vars

(***************************************************************************)
(* Properties of the tab composers and the folds (SpecCompose)             *)
(***************************************************************************)
\* The arguments a composer was given, whichever of the two it is.
ArgsSet ==
    \/ widget.type \in {"ui_util::Tabs", "panicked"}
    \/ /\ widget.type = "app::Tabs"
       /\ is_some(widget.tabs) /\ is_some(widget.current)
       /\ is_some(widget.on_choice) /\ is_some(widget.content)
ArgTabs == IF widget.type = "app::Tabs" THEN widget.tabs[1] ELSE widget.tabs
ArgCurrent == IF widget.type = "app::Tabs" THEN widget.current[1] ELSE widget.current
ArgOnChoice == IF widget.type = "app::Tabs" THEN widget.on_choice[1] ELSE widget.on_choice
ArgContent == IF widget.type = "app::Tabs" THEN widget.content[1] ELSE widget.content
InRange == ArgCurrent >= 0 /\ ArgCurrent < Len(ArgTabs)
Converted == element # Unit

\* C1: composing a tabbed view with a current index outside [0, len(tabs)) panics
\* in both composers (also for an empty tab list): ui-util's Tabs::new never
\* returns a widget for such an index, and the app builder's conversion yields a
\* panic and no element.
C1_OutOfRangeFailsFast ==
    /\ widget.type = "ui_util::Tabs" => InRange
    /\ (widget.type = "panicked" /\ ~InRange) => IsPanic(element)
    /\ (widget.type = "app::Tabs" /\ ArgsSet /\ Converted /\ ~InRange)
            => IsPanic(element)

C1_Witness ==
    /\ widget.type = "app::Tabs" /\ ArgsSet /\ Converted
    /\ ArgTabs = <<"a", "b">> /\ ArgCurrent = 2
    /\ element = Panic("index out of bounds")

\* The column of a tabbed view and the button of a tab header (ui-util wraps both
\* in a container).
TabsColumn(e) == IF e.widget = "Container" THEN e.child ELSE e
HeaderButton(h) == IF h.widget = "Container" THEN h.child ELSE h

\* C2: for n >= 1 tabs and current in [0, n), either composer renders a column of
\* exactly two children: a row of n header buttons in tab order, where the button
\* at current has no press handler and every other button i emits on_choice(i),
\* and one content element, content(tabs[current]).
C2_HeadersAndContent ==
    (widget.type \in {"ui_util::Tabs", "app::Tabs"} /\ ArgsSet /\ Converted /\ InRange)
        => /\ ~IsPanic(element)
           /\ LET col == TabsColumn(element)
                  row == col.children[1]
                  n == Len(ArgTabs)
              IN  /\ col.widget = "Column"
                  /\ Len(col.children) = 2
                  /\ row.widget = "Row"
                  /\ Len(row.children) = n
                  /\ \A i \in 0 .. n - 1 :
                        LET btn == HeaderButton(row.children[i + 1])
                        IN  /\ btn.widget = "Button"
                            /\ btn.content = text(ArgTabs[i + 1])
                            /\ btn.on_press =
                                 IF i = ArgCurrent THEN None ELSE Some(ArgOnChoice[i])
                  /\ col.children[2] = ArgContent[ArgTabs[ArgCurrent + 1]]

C2_Witness ==
    /\ widget.type = "ui_util::Tabs" /\ Converted
    /\ ArgTabs = <<"a", "b", "c">> /\ ArgCurrent = 1
    /\ LET row == TabsColumn(element).children[1]
       IN  /\ Len(row.children) = 3
           /\ HeaderButton(row.children[1]).on_press = Some([type |-> "SelTab", tab |-> 0])
           /\ HeaderButton(row.children[2]).on_press = None
           /\ HeaderButton(row.children[3]).on_press = Some([type |-> "SelTab", tab |-> 2])
    /\ TabsColumn(element).children[2] = text("b")

\* C3: collect_row and collect_column yield a group with one child per item, child
\* k being f(item k), in input order, repeated items giving repeated children and
\* an empty input giving no children.
C3_OneChildPerItem ==
    widget.type = "iter"
        => /\ element.widget \in {"Row", "Column"}
           /\ Len(element.children) = Len(widget.iter)
           /\ \A k \in 1 .. Len(widget.iter) :
                element.children[k] = widget.f[widget.iter[k]]

C3_Witness ==
    /\ widget.type = "iter"
    /\ widget.iter = <<"b", "a", "b">>
    /\ element = [widget |-> "Column",
                  children |-> <<text("b"), text("a"), text("b")>>]

(***************************************************************************)
(* Properties of the colour algebra and the theme resolver (SpecStyle)     *)
(***************************************************************************)
\* C4: style resolution has no error cases: for every widget kind, style
\* descriptor and theme the appearance callback returns an appearance and does not
\* panic.
C4_NoErrorCases == call = "appearance" => ~IsPanic(ret)

Resolved == call = "BoxPalette::from_contrast_palette"

\* C5: the resolver maps {bright, dim} by theme: Light gives background = bright
\* and text = border = foreground = dim; Dark gives background = dim and text =
\* border = foreground = bright; DarkMute gives text = border = foreground =
\* bright and background = mute(dim) with the factor 0.25.
C5_ResolverTable ==
    Resolved =>
        LET fore == IF inTheme = "Light" THEN inPalette.dim ELSE inPalette.bright
            back == CASE inTheme = "Light" -> inPalette.bright
                      [] inTheme = "Dark" -> inPalette.dim
                      [] inTheme = "DarkMute" -> mute_color(inPalette.dim, Some(Quarter))
        IN  /\ BoxPalette_role(ret, "background") = back
            /\ \A role \in {"text", "border", "foreground"} :
                    BoxPalette_role(ret, role) = fore

C5_Witness ==
    /\ Resolved /\ inTheme = "DarkMute"
    /\ inPalette = [bright |-> White, dim |-> Black]
    /\ ret.text = White
    /\ ret.background = [r |-> Eighth, g |-> Eighth, b |-> Eighth, a |-> One]

\* C6: under Light and Dark, a palette with bright # dim resolves to a background
\* and a text colour that differ.
C6_ContrastPreserved ==
    (Resolved /\ inTheme \in {"Light", "Dark"} /\ inPalette.bright # inPalette.dim)
        => ret.background # ret.text

C6_Witness ==
    /\ Resolved /\ inTheme = "Dark"
    /\ inPalette.bright # inPalette.dim
    /\ inPalette.bright.r = inPalette.dim.r
    /\ ret.background = inPalette.dim /\ ret.text = inPalette.bright

Channels == {"r", "g", "b"}
Clamped(x) == clamp(x, 0, One)

\* C7 as claimed: under DarkMute every dim channel that is not 0.5 gives a
\* background channel that is not 0.5 and lies strictly between the clamped dim
\* channel and 0.5.
C7_StrictlyBetween ==
    (Resolved /\ inTheme = "DarkMute") =>
        \A ch \in Channels :
            LET d == Clamped(inPalette.dim[ch])
                v == ret.background[ch]
            IN  inPalette.dim[ch] # Half =>
                    /\ v # Half
                    /\ (d < Half => d < v /\ v < Half)
                    /\ (d > Half => Half < v /\ v < d)

\* C7 as amended: the background channel is never 0.5 and lies between the clamped
\* dim channel and 0.5, strictly so unless the clamped dim channel is one of the
\* two f32 values nearest to 0.5 on either side, for which f32 rounding returns
\* the dim channel itself.
C7_BetweenUpToRounding ==
    (Resolved /\ inTheme = "DarkMute") =>
        \A ch \in Channels :
            LET d == Clamped(inPalette.dim[ch])
                v == ret.background[ch]
            IN  inPalette.dim[ch] # Half =>
                    /\ v # Half
                    /\ (d < Half => d <= v /\ v < Half)
                    /\ (d > Half => Half < v /\ v <= d)
                    /\ v = d => d \in {Half + 1, Half + 2, Half - 1, Half - 2}

C7_Witness ==
    /\ Resolved /\ inTheme = "DarkMute"
    /\ inPalette.dim.r = Half + 1 /\ ret.background.r = Half + 1
    /\ inPalette.dim.g = Tenth
    /\ ret.background.g > Tenth /\ ret.background.g < Half

\* C8: the monochrome palette resolves, for Light, to background white and text,
\* border and foreground black and, for Dark, to background black and text, border
\* and foreground white; Theme::box_palette returns these values, the contrast
\* palette of every theme being monochrome.
C8_Monochrome ==
    LET white == [r |-> One, g |-> One, b |-> One, a |-> One]
        black == [r |-> 0, g |-> 0, b |-> 0, a |-> One]
        mono == [bright |-> white, dim |-> black]
        Expected(bp) ==
            /\ inTheme = "Light" =>
                /\ BoxPalette_role(bp, "background") = white
                /\ \A role \in {"text", "border", "foreground"} :
                        BoxPalette_role(bp, role) = black
            /\ inTheme = "Dark" =>
                /\ BoxPalette_role(bp, "background") = black
                /\ \A role \in {"text", "border", "foreground"} :
                        BoxPalette_role(bp, role) = white
    IN  /\ (Resolved /\ inPalette = mono) => Expected(ret)
        /\ call = "Theme::box_palette" =>
                /\ Expected(ret)
                /\ Theme_contrast_palette(inTheme) = mono
                /\ ret = BoxPalette_from_contrast_palette(inTheme, mono)

C8_Witness ==
    /\ call = "Theme::box_palette" /\ inTheme = "Dark"
    /\ ret.background = Black /\ ret.text = White

\* The factor is one the claims speak of: absent, or in [0, 1].
FactorInUnit == ~is_some(inT) \/ (inT[1] >= 0 /\ inT[1] <= One)

\* C9: mute keeps alpha exactly, for every colour and every factor in [0, 1] or
\* absent: in mute_color and ColorManipExt::mute, and so in both
\* ContrastPalette::mute_dim and in every role of Palette::mute.
C9_AlphaPreserved ==
    FactorInUnit =>
        /\ call \in {"mute_color", "Color::mute"} => ret.a = inPalette.dim.a
        /\ call \in {"ContrastPalette::mute_dim", "color::ContrastPalette::mute_dim"}
                => ret.dim.a = inPalette.dim.a /\ ret.bright.a = inPalette.bright.a
        /\ call = "Palette::mute" =>
                \A role \in {"border", "background", "foreground", "text"} :
                    ret[role].a = RolePalette(inPalette)[role].a

C9_Witness ==
    /\ call = "mute_color" /\ inT = Some(Half)
    /\ inPalette.dim.a = ThreeQuarters /\ ret.a = ThreeQuarters
    /\ ret.r # inPalette.dim.r

InUnit(c) == \A ch \in {"r", "g", "b", "a"} : c[ch] >= 0 /\ c[ch] <= One

\* C10: for a colour c with channels in [0, 1], mute(c, 0.0) = c and mute(c, 1.0)
\* has r = g = b = 0.5 exactly; with no factor given the factor is 0.25.
C10_MuteEndPoints ==
    (call \in {"mute_color", "Color::mute"} /\ InUnit(inPalette.dim)) =>
        /\ inT = Some(0) => ret = inPalette.dim
        /\ inT = Some(One) => ret.r = Half /\ ret.g = Half /\ ret.b = Half
        /\ inT = None =>
            /\ ret = mute_color(inPalette.dim, Some(Quarter))
            /\ inPalette.dim.r = 0 => ret.r = Eighth
            /\ inPalette.dim.r = One => ret.r = SevenEighths

C10_Witness ==
    /\ call = "mute_color" /\ inT = Some(One)
    /\ InUnit(inPalette.dim)
    /\ inPalette.dim.r = Tenth /\ inPalette.dim.g = 0
    /\ ret.r = Half /\ ret.g = Half /\ ret.b = Half


(***************************************************************************)
(* Properties of the interpolation (SpecLerp)                              *)
(***************************************************************************)
LerpCalled == call \in {"lerp", "color::lerp"}
Between(x, lo, hi) == lo <= x /\ x <= hi

\* A value x of [0, 2) is Grid(x) * 2^-30 and what is left over, Rest(x), which
\* is itself an f32 below 2^-30: distances are compared exactly on the two.
Grid(x) ==
    LET f == Float(x)
    IN  IF f.e >= -30 THEN f.m * 2^(f.e + 30)
        ELSE IF f.e < -54 THEN 0
        ELSE f.m \div 2^(-30 - f.e)

Rest(x) ==
    LET f == Float(x)
    IN  IF f.e >= -30 THEN 0
        ELSE IF f.e < -54 THEN x
        ELSE f32(f.m % 2^(-30 - f.e), f.e)

\* 2^-24, the largest distance f32 rounding puts between lerp(a, b, 1) and b,
\* in units of 2^-30.
RoundingSlack == 2^6

\* x <= y + 2^-24
AtMostSlackAbove(x, y) ==
    \/ Grid(x) < Grid(y) + RoundingSlack
    \/ Grid(x) = Grid(y) + RoundingSlack /\ Rest(x) <= Rest(y)

\* |x - y| <= 2^-24
WithinSlack(x, y) == AtMostSlackAbove(x, y) /\ AtMostSlackAbove(y, x)
Min(x, y) == IF x < y THEN x ELSE y
Max(x, y) == IF x > y THEN x ELSE y

\* C11 as claimed: the scalar lerp returns a value in [0, 1]; with t <= 0 it is
\* clamp(a), with t >= 1 it is clamp(b), and in between it lies between clamp(a)
\* and clamp(b).
C11_ClampedLerp ==
    LerpCalled =>
        LET ca == Clamped(inPalette.dim.r)
            cb == Clamped(inPalette.bright.r)
            t == inT[1]
            v == ret.value
        IN  /\ Between(v, 0, One)
            /\ t <= 0 => v = ca
            /\ t >= One => v = cb
            /\ Between(v, Min(ca, cb), Max(ca, cb))

\* C11 as amended: the result is in [0, 1]; with t <= 0 it is clamp(a) exactly;
\* with t >= 1 it is within 2^-24 of clamp(b); for every t it does not leave the
\* interval between clamp(a) and clamp(b) on the side of a, nor by more than
\* 2^-24 on the side of b.
C11_ClampedLerpUpToRounding ==
    LerpCalled =>
        LET ca == Clamped(inPalette.dim.r)
            cb == Clamped(inPalette.bright.r)
            t == inT[1]
            v == ret.value
        IN  /\ Between(v, 0, One)
            /\ t <= 0 => v = ca
            /\ t >= One => WithinSlack(v, cb)
            /\ IF ca <= cb
               THEN ca <= v /\ AtMostSlackAbove(v, cb)
               ELSE AtMostSlackAbove(cb, v) /\ v <= ca

C11_Witness ==
    /\ call = "lerp" /\ inT = Some(FiveQuarters)
    /\ inPalette.dim.r = FiveQuarters /\ inPalette.bright.r = f32(3, -27)
    /\ ret.value = 0

(***************************************************************************)
(* Further properties of the palettes and the style sheets (SpecStyle)     *)
(***************************************************************************)
\* C12: p.invert() has bright = p.dim and dim = p.bright, and p.invert().invert()
\* is p, in both revisions of ContrastPalette.
C12_InvertInvolution ==
    /\ call \in {"ContrastPalette::invert", "color::ContrastPalette::invert"}
            => ret.bright = inPalette.dim /\ ret.dim = inPalette.bright
    /\ call \in {"ContrastPalette::invert::invert",
                 "color::ContrastPalette::invert::invert"}
            => ret = inPalette

C12_Witness ==
    /\ call = "ContrastPalette::invert::invert"
    /\ inPalette.bright # inPalette.dim
    /\ ret = inPalette

MuteDimCalled == call \in {"ContrastPalette::mute_dim", "color::ContrastPalette::mute_dim"}

\* C13: p.mute_dim(t) has dim = mute(p.dim, t) and bright = p.bright, for every
\* factor (absent or not, in [0, 1] or not), in both revisions; the call leaves
\* the palette it was applied to as it was.
C13_MuteDimOnly ==
    /\ [](/\ call = "ContrastPalette::mute_dim"
                => /\ ret.dim = mute_color(inPalette.dim, inT)
                   /\ ret.bright = inPalette.bright
          /\ call = "color::ContrastPalette::mute_dim"
                => /\ ret.dim = Color_mute(inPalette.dim, inT)
                   /\ ret.bright = inPalette.bright)
    /\ [][MuteDimCalled' => inPalette' = inPalette]_vars

C13_Witness ==
    /\ call = "ContrastPalette::mute_dim" /\ inT = Some(Half)
    /\ inPalette.bright = [r |-> One, g |-> 0, b |-> One, a |-> One]
    /\ inPalette.dim = Black
    /\ ret.bright = inPalette.bright
    /\ ret.dim = [r |-> Quarter, g |-> Quarter, b |-> Quarter, a |-> One]

\* The last call resolved a text style; TextStyle is the descriptor, if any.
TextResolved == call = "appearance" /\ inStyle.kind = "text"
TextVariant == IF is_some(inStyle.style) THEN inStyle.style[1].variant ELSE "None"

\* C14: a text style with an explicit contrast palette c resolves, under every
\* theme, to the text role of resolve(theme, c.mute_dim(None)): the default-muted
\* dim under Light, bright under Dark and DarkMute.
C14_TextExplicitPalette ==
    (TextResolved /\ TextVariant = "ContrastPalette") =>
        LET c == inStyle.style[1].palette
            resolved == BoxPalette_from_contrast_palette(
                            inTheme, ContrastPalette_mute_dim(c, None))
        IN  /\ ret = [color |-> Some(BoxPalette_role(resolved, "text"))]
            /\ inTheme = "Light" => ret.color = Some(mute_color(c.dim, None))
            /\ inTheme \in {"Dark", "DarkMute"} => ret.color = Some(c.bright)

\* C25: the text colour of a text style with an explicit contrast palette p is,
\* under every theme, the text colour the resolver gives the application,
\* BoxPalette::from_contrast_palette(theme, p).text, and so differs from the
\* background of that resolution whenever p.bright # p.dim and the default mute
\* of dim is not bright.
C25_TextAgreesWithResolver ==
    (TextResolved /\ TextVariant = "ContrastPalette") =>
        LET p == inStyle.style[1].palette
            resolved == BoxPalette_from_contrast_palette(inTheme, p)
            app_look == application_appearance(inTheme, p)
        IN  /\ ret = [color |-> Some(resolved.text)]
            /\ ret.color = Some(app_look.text_color)
            /\ (p.bright # p.dim /\ mute_color(p.dim, None) # p.bright)
                    => ret.color # Some(app_look.background_color)

\* C15: a text style carrying an explicit colour resolves to exactly that colour
\* under every theme, and an absent style resolves to no colour (the text colour
\* is left to inherit).
C15_ManualColourPassThrough ==
    TextResolved =>
        /\ TextVariant = "Color" => ret = [color |-> Some(inStyle.style[1].color)]
        /\ TextVariant = "None" => ret = [color |-> None]

C15_Witness ==
    /\ TextResolved /\ TextVariant = "Color" /\ inTheme = "DarkMute"
    /\ inStyle.style[1].color = [r |-> Half - 1, g |-> 0, b |-> One, a |-> One]
    /\ ret.color = Some(inStyle.style[1].color)

ButtonStyled == call = "button::StyleSheet"
Sheet == inStyle.style.sheet

\* C16 as claimed: for every button style and theme, the appearance in the
\* pressed state is the appearance in the active (resting) state.
C16_PressedIsActive ==
    (ButtonStyled /\ inStyle.method = "pressed")
        => ret = ButtonAppearance(Sheet, "active", inTheme)

\* C16 as amended: the pressed appearance of the tab style is its disabled
\* appearance (background: the base background colour, where active has the
\* strong one); the pressed appearance of a TextButton style is its active
\* appearance with the weak colour of the style's kind as background instead of
\* the strong one.  Pressed therefore differs from active wherever the palette
\* gives these entries different colours.
C16_PressedIsDisabledOrWeak ==
    (ButtonStyled /\ inStyle.method = "pressed") =>
        LET palette == extended_palette(inTheme)
            active == ButtonAppearance(Sheet, "active", inTheme)
        IN  IF Sheet = "Tab"
            THEN /\ ret = ButtonAppearance(Sheet, "disabled", inTheme)
                 /\ ret.background = Some(palette.background.base.color)
                 /\ active.background = Some(palette.background.strong.color)
                 /\ palette.background.base.color # palette.background.strong.color
                        => ret # active
            ELSE LET entry == palette[StyleKind(Sheet)]
                 IN  /\ ret = [active EXCEPT !.background = Some(entry.weak.color)]
                     /\ active.background = Some(entry.strong.color)
                     /\ entry.weak.color # entry.strong.color => ret # active

C16_Witness ==
    /\ ButtonStyled /\ inStyle.method = "pressed" /\ Sheet = "Tab"
    /\ inTheme = "iced::Dark"
    /\ ret.background = Some(<<"iced::Dark", "background", "base", "color">>)
    /\ ret.text_color = <<"iced::Dark", "background", "strong", "text">>

(***************************************************************************)
(* Properties of the builders (SpecCompose)                                *)
(***************************************************************************)
MissingFieldPanics ==
    {Panic("no tabs given to Tabs"), Panic("not current given to Tabs"),
     Panic("no on_choice given to Tabs"), Panic("no content function given to Tabs"),
     TextButton_missing_on_press}

\* C17: converting the app's Tabs builder panics if tabs, current, on_choice or
\* content was never set, whatever the order of the setter calls, and converting
\* a TextButton whose OnPress is a message factory panics if on_press is empty;
\* with every mandatory field set the conversion does not panic for a missing
\* field.
C17_MissingFieldFailsLoudly ==
    /\ (widget.type = "app::Tabs" /\ Converted) =>
            IF ArgsSet
            THEN element \notin MissingFieldPanics
            ELSE IsPanic(element) /\ element \in MissingFieldPanics
    /\ (widget.type = "TextButton" /\ widget.factory /\ Converted) =>
            IF is_some(widget.on_press)
            THEN ~IsPanic(element)
            ELSE element = TextButton_missing_on_press

C17_Witness ==
    /\ widget.type = "app::Tabs" /\ Converted
    /\ is_some(widget.tabs) /\ is_some(widget.content) /\ is_some(widget.on_choice)
    /\ ~is_some(widget.current)
    /\ element = Panic("not current given to Tabs")

\* A TextButton with a factory type and no on_press, converted.
C17_TextButtonReached ==
    /\ widget.type = "TextButton" /\ widget.factory /\ ~is_some(widget.on_press)
    /\ element = TextButton_missing_on_press

\* C24: a TextButton built by TextButton::new, whatever setters follow, converts
\* to a button with no press handler: no press on it produces a message; one
\* built by new_with_on_press converts to a button whose every press produces
\* the message the factory returns, and nothing else.
C24_PressEmitsFactoryMessage ==
    (widget.type = "TextButton" /\ Converted /\ ~IsPanic(element)) =>
        IF widget.factory
        THEN /\ is_some(widget.on_press)
             /\ Pressable(element) = {widget.on_press[1]}
             /\ \A k \in 1 .. Len(inbox) : inbox[k] = widget.on_press[1]
        ELSE /\ ~is_some(widget.on_press)
             /\ element.on_press = None
             /\ Pressable(element) = {}
             /\ inbox = << >>

\* A button with a factory has been pressed twice.
C24_Witness ==
    /\ widget.type = "TextButton" /\ widget.factory
    /\ widget.on_press = Some([type |-> "AddTab", name |-> "new"])
    /\ "widget" \in DOMAIN element
    /\ inbox = <<[type |-> "AddTab", name |-> "new"], [type |-> "AddTab", name |-> "new"]>>

\* A button without a factory has been converted.
C24_NoHandlerReached ==
    /\ widget.type = "TextButton" /\ ~widget.factory
    /\ "widget" \in DOMAIN element

(***************************************************************************)
(* The application: App::new, the executor completing the futures of the   *)
(* commands, the runtime handing each message produced to App::update, and *)
(* App::view.                                                               *)
(***************************************************************************)
FlagSets == {[files |-> files] : files \in SeqsUpTo(Paths, MaxFiles)}

InitApp ==
    /\ StyleIdle
    /\ ComposeIdle
    /\ flags \in FlagSets
    /\ app = NoApp
    /\ tasks = << >>
    /\ inbox = << >>
    /\ hist = NoHist

Created == app # NoApp

\* How many of the futures of a command load the file.
RECURSIVE Loads(_, _)
Loads(command, f) ==
    IF command = << >> THEN 0
    ELSE (IF Head(command).future = load(f) THEN 1 ELSE 0) + Loads(Tail(command), f)

Remove(seq, i) == SubSeq(seq, 1, i - 1) \o SubSeq(seq, i + 1, Len(seq))

App_New ==
    /\ ~Created
    /\ LET made == App_new(flags)
       IN  /\ app' = made.state
           /\ tasks' = made.command
    /\ UNCHANGED <<flags, inbox, hist, styleVars, composeVars>>

\* A spawned future completes: its output, mapped, is a message for update.
Task_complete ==
    /\ \E i \in 1 .. Len(tasks) :
            LET task == tasks[i]
            IN  /\ inbox' = Append(inbox, Message(task.map, FutureOutput(task.future)))
                /\ tasks' = Remove(tasks, i)
                /\ hist' = IF task.future.async = "ready"
                           THEN [hist EXCEPT !.issued[task.future.value] = @ + 1]
                           ELSE [hist EXCEPT !.delivered[task.future.path] = @ + 1]
    /\ UNCHANGED <<flags, app, styleVars, composeVars>>

\* The runtime calls update with the oldest message and spawns the command.
App_Update ==
    /\ Created
    /\ inbox # << >>
    /\ LET message == Head(inbox)
           done == update(app, message)
       IN  /\ app' = done.state
           /\ tasks' = tasks \o done.command
           /\ inbox' = Tail(inbox)
           /\ hist' = [hist EXCEPT
                        !.last = Some(message),
                        !.printed = done.printed,
                        !.requested = [f \in Paths |->
                            @[f] + IF message = Message("LoadFile", f) THEN 1 ELSE 0],
                        !.dispatched = [f \in Paths |-> @[f] + Loads(done.command, f)],
                        !.handled = @ + IF message.type = "FileLoaded" THEN 1 ELSE 0,
                        !.loaded = IF message.type = "FileLoaded" /\ is_ok(message.result)
                                   THEN Some(message.result.ok) ELSE @]
    /\ UNCHANGED <<flags, styleVars, composeVars>>

App_View ==
    /\ Created
    /\ element' = view(app)
    /\ UNCHANGED <<widget, appVars, styleVars>>

\* The user presses a button of the view on display: its message is produced.
Button_press ==
    /\ Created
    /\ element = view(app)
    /\ hist.pressed < MaxPresses
    /\ \E message \in Pressable(element) :
            inbox' = Append(inbox, message)
    /\ hist' = [hist EXCEPT !.pressed = @ + 1]
    /\ UNCHANGED <<flags, app, tasks, styleVars, composeVars>>

\* An AddTab message is produced.  No widget of the view emits one.
AddTab_sent ==
    /\ Created
    /\ hist.added < MaxAdded
    /\ \E name \in TabNames :
            inbox' = Append(inbox, Message("AddTab", name))
    /\ hist' = [hist EXCEPT !.added = @ + 1]
    /\ UNCHANGED <<flags, app, tasks, styleVars, composeVars>>

NextApp ==
    \/ App_New
    \/ Task_complete
    \/ App_Update
    \/ App_View

SpecApp == InitApp /\ [][NextApp]_vars

\* The runtime creates the application, the executor drives every spawned
\* future to completion, and every message produced is handed to update.
SpecAppLive ==
    /\ InitApp /\ [][NextApp]_vars
    /\ WF_vars(App_New)
    /\ WF_vars(Task_complete)
    /\ WF_vars(App_Update)

\* The application in use: started with at most one file (the loads of several
\* files are those of SpecApp), the user pressing the buttons of the view and
\* AddTab messages arriving while it runs.
UseFlags == {fl \in FlagSets : Len(fl.files) <= 1}

InitUse ==
    /\ StyleIdle
    /\ ComposeIdle
    /\ flags \in UseFlags
    /\ app = NoApp
    /\ tasks = << >>
    /\ inbox = << >>
    /\ hist = NoHist

NextUse ==
    \/ NextApp
    \/ Button_press
    \/ AddTab_sent

SpecUse == InitUse /\ [][NextUse]_vars

\* The view as a function of the application's state: the states are those the
\* application is in some time after start-up, with nothing in flight: no data
\* or the data of a file of up to 130 bookmarks, the three tabs and those added
\* since, any of them selected.
ViewSizes == {0, 1, 127, 128, 129, 130}
ViewData ==
    {None, Some(FileData_a), Some(FileData_b)}
        \cup {Some(FileData_sized(n)) : n \in ViewSizes}
ViewApps ==
    {[data |-> data, tabs |-> <<"bookmarks", "edit", "log">> \o added,
      selected_tab |-> selected] :
        data \in ViewData, added \in SeqsUpTo(TabNames, MaxAdded),
        selected \in 0 .. 2 + MaxAdded}

InitView ==
    /\ StyleIdle
    /\ ComposeIdle
    /\ flags = [files |-> <<"view.bm">>]
    /\ app \in {a \in ViewApps : a.selected_tab < Len(a.tabs)}
    /\ tasks = << >>
    /\ inbox = << >>
    /\ hist = NoHist

NextView == App_View

SpecView == InitView /\ [][NextView]_vars

(***************************************************************************)
(* Properties of the application (SpecApp, SpecAppLive)                    *)
(***************************************************************************)
\* update is about to handle a failed load, and this step is that call.
FailedLoadHandled ==
    /\ Created /\ inbox # << >>
    /\ Head(inbox).type = "FileLoaded" /\ ~is_ok(Head(inbox).result)
    /\ hist'.handled = hist.handled + 1

\* C18: handling FileLoaded(Err) leaves data, tabs and selected_tab as they were
\* and returns no command, so loaded data is retained and, with no data loaded,
\* the view is still the 'no data loaded' element.
C18_FailedLoadRecoverable ==
    [][FailedLoadHandled =>
            /\ app' = app
            /\ tasks' = tasks
            /\ ~is_some(app.data) => view(app') = NoDataLoaded]_vars

C18_Witness ==
    /\ Created
    /\ hist.last = Some(Message("FileLoaded", Err("IO")))
    /\ app.data = Some(FileData_a)
    /\ element = view(app) /\ element # NoDataLoaded

\* How many times the file is listed, and how many futures of a kind are in flight.
RECURSIVE Count(_, _)
Count(f, files) ==
    IF files = << >> THEN 0
    ELSE (IF Head(files) = f THEN 1 ELSE 0) + Count(f, Tail(files))
InFlight(future) == Cardinality({i \in 1 .. Len(tasks) : tasks[i].future = future})

RECURSIVE Sum(_, _)
Sum(fn, S) ==
    IF S = {} THEN 0
    ELSE LET x == CHOOSE y \in S : TRUE IN fn[x] + Sum(fn, S \ {x})

LoadingOneShot ==
    /\ Created =>
        \A f \in Paths : hist.issued[f] + InFlight(ready(f)) = Count(f, flags.files)
    /\ ~Created => tasks = << >> /\ inbox = << >>
    /\ \A f \in Paths :
        /\ hist.requested[f] <= hist.issued[f]
        /\ hist.dispatched[f] = hist.requested[f]
        /\ hist.delivered[f] + InFlight(load(f)) = hist.dispatched[f]
    /\ hist.handled <= Sum(hist.delivered, Paths)

\* update, handling LoadFile, returns with the load still to be done.
LoadFileHandled ==
    /\ Created /\ inbox # << >>
    /\ Head(inbox).type = "LoadFile"
    /\ hist'.requested # hist.requested

AllLoadsHandled ==
    /\ Created
    /\ tasks = << >> /\ inbox = << >>
    /\ \A f \in Paths : hist.delivered[f] = Count(f, flags.files)
    /\ hist.handled = Len(flags.files)

\* C19: App::new issues exactly one LoadFile per file of the flags (none for an
\* empty list); each LoadFile handled by update dispatches exactly one load task,
\* update returning while the load is still in flight; each load task delivers
\* exactly one FileLoaded, and eventually every one of them has reached update.
C19_OneShotLoading ==
    /\ []LoadingOneShot
    /\ [][LoadFileHandled =>
            /\ app' = app
            /\ tasks' = Append(tasks, [future |-> load(Head(inbox).file),
                                       map |-> "FileLoaded"])
            /\ inbox' = Tail(inbox)]_vars
    /\ <>AllLoadsHandled

C19_Witness ==
    /\ AllLoadsHandled
    /\ flags.files = <<"missing.bm", "a.bm">>
    /\ hist.issued["a.bm"] = 1 /\ hist.issued["missing.bm"] = 1
    /\ hist.delivered["a.bm"] = 1 /\ hist.delivered["missing.bm"] = 1
    /\ hist.handled = 2

\* The listed files whose load succeeds.
Loadable == {f \in Yielded(flags.files) : is_ok(FileData_load(f))}

\* C23: loads of several startup files overwrite and never merge: data is at all
\* times the FileData of the FileLoaded(Ok) update handled last, and once every
\* load task has completed and its message been handled, data is the whole
\* FileData of one listed file, and is None exactly if no load succeeded.
C23_LastLoadWins ==
    /\ Created => app.data = hist.loaded
    /\ AllLoadsHandled =>
            /\ is_some(app.data) =>
                    \E f \in Loadable : app.data = Some(FileData_load(f).ok)
            /\ ~is_some(app.data) <=> Loadable = {}

\* Two files loaded: the one listed first was delivered last, and it is the data.
C23_Witness ==
    /\ AllLoadsHandled
    /\ flags.files = <<"a.bm", "b.bm">>
    /\ hist.last = Some(Message("FileLoaded", Ok(FileData_a)))
    /\ app.data = Some(FileData_a)

(***************************************************************************)
(* Properties of the colour lerp (SpecLerp)                                *)
(***************************************************************************)
\* C20 as claimed: the colour lerp interpolates alpha like r, g and b, with
\* lerp(c1, c2, 0).a = clamp(c1.a) and lerp(c1, c2, 1).a = clamp(c2.a), whereas
\* mute returns the alpha it was given.
C20_AlphaInterpolated ==
    /\ call = "Color::lerp" =>
            /\ inT[1] = 0 => ret.a = Clamped(inPalette.dim.a)
            /\ inT[1] = One => ret.a = Clamped(inPalette.bright.a)
    /\ call = "Color::mute" => ret.a = inPalette.dim.a

\* C20 as amended: the colour lerp interpolates alpha with the clamped
\* interpolation of r, g and b: the result is in [0, 1], lerp(c1, c2, 0).a is
\* clamp(c1.a) exactly and lerp(c1, c2, 1).a is within 2^-24 of clamp(c2.a);
\* mute returns the alpha it was given, unclamped.
C20_AlphaInterpolatedUpToRounding ==
    /\ call = "Color::lerp" =>
            LET a1 == Clamped(inPalette.dim.a)
                a2 == Clamped(inPalette.bright.a)
            IN  /\ Between(ret.a, 0, One)
                /\ inT[1] <= 0 => ret.a = a1
                /\ inT[1] >= One => WithinSlack(ret.a, a2)
                /\ IF a1 <= a2
                   THEN a1 <= ret.a /\ AtMostSlackAbove(ret.a, a2)
                   ELSE AtMostSlackAbove(a2, ret.a) /\ ret.a <= a1
    /\ call = "Color::mute" => ret.a = inPalette.dim.a

C20_Witness ==
    /\ call = "Color::lerp" /\ inT = Some(One)
    /\ inPalette.dim.a = Tenth /\ inPalette.bright.a = One
    /\ inPalette.dim.r = 0 /\ inPalette.bright.r = Half
    /\ ret.a = One /\ ret.r = Half

(***************************************************************************)
(* Properties of the application in use (SpecUse)                          *)
(***************************************************************************)
\* C21: in every state reachable from App::new by the messages the application
\* produces (SelTab from the tab headers of the view, AddTab, LoadFile,
\* FileLoaded, OpenBookmark), selected_tab < len(tabs), every SelTab a header can
\* emit or that waits for update is in range, and the view does not panic;
\* update itself checks no range: it stores any index, and the view of a state
\* with data and the index len(tabs) is the out-of-range panic.
C21_SelectedTabInRange ==
    Created =>
        /\ app.selected_tab < Len(app.tabs)
        /\ ~IsPanic(view(app))
        /\ \A m \in Pressable(view(app)) : m.type = "SelTab" => m.tab < Len(app.tabs)
        /\ \A k \in 1 .. Len(inbox) :
                inbox[k].type = "SelTab" => inbox[k].tab < Len(app.tabs)
        /\ \A i \in 0 .. Len(app.tabs) + 1 :
                LET after == update(app, Message("SelTab", i)).state
                IN  /\ after.selected_tab = i
                    /\ (is_some(app.data) /\ i >= Len(app.tabs))
                            => view(after) = Panic("index out of bounds")

\* The tab added while running has been selected by a press on its header.
C21_Witness ==
    /\ Created
    /\ hist.last = Some(Message("SelTab", 3))
    /\ Len(app.tabs) = 4 /\ app.selected_tab = 3
    /\ is_some(app.data)
    /\ element = view(app) /\ ~IsPanic(element)

\* The messages update can be given in a state: every constructor, with the
\* indices up to one past the tabs, the names, the uuids of the files and one of
\* none, the paths and the results of loading them.
MessagesFor(self) ==
    {Message("SelTab", i) : i \in 0 .. Len(self.tabs) + 1}
        \cup {Message("AddTab", name) : name \in TabNames}
        \cup {Message("OpenBookmark", id) : id \in 0 .. 3}
        \cup {Message("LoadFile", f) : f \in Paths}
        \cup {Message("FileLoaded", FileData_load(f)) : f \in Paths}

\* What the message may change of the state.
FrameEffect(self, message, after) ==
    CASE message.type = "SelTab" ->
            /\ after.selected_tab = message.tab
            /\ after.tabs = self.tabs /\ after.data = self.data
      [] message.type = "AddTab" ->
            /\ Len(after.tabs) = Len(self.tabs) + 1
            /\ SubSeq(after.tabs, 1, Len(self.tabs)) = self.tabs
            /\ after.tabs[Len(after.tabs)] = message.name
            /\ after.selected_tab = self.selected_tab /\ after.data = self.data
      [] message.type \in {"OpenBookmark", "LoadFile"} -> after = self
      [] message.type = "FileLoaded" /\ is_ok(message.result) ->
            /\ after.data = Some(message.result.ok)
            /\ after.tabs = self.tabs /\ after.selected_tab = self.selected_tab
      [] OTHER -> TRUE

\* This step is update handling the oldest message.
UpdateStep == Created /\ inbox # << >> /\ inbox' = Tail(inbox)

\* C22: each message changes only its own part of the state: SelTab(i) sets
\* selected_tab to i; AddTab(name) appends name to tabs, the earlier entries and
\* their order kept; OpenBookmark and LoadFile change nothing; FileLoaded(Ok(d))
\* replaces data by d; and each leaves the other fields as they were.  It holds
\* of every call the runtime makes and of update on every message in every
\* reachable state.
C22_UpdateFrame ==
    /\ [][UpdateStep => FrameEffect(app, Head(inbox), app')]_vars
    /\ [](Created =>
            \A message \in MessagesFor(app) :
                FrameEffect(app, message, update(app, message).state))

\* A tab was added while another than the first was selected and data loaded.
C22_Witness ==
    /\ Created
    /\ hist.last = Some(Message("AddTab", "notes"))
    /\ app.tabs = <<"bookmarks", "edit", "log", "notes">>
    /\ app.selected_tab = 2
    /\ app.data = Some(FileData_b)

(***************************************************************************)
(* Properties of the view (SpecView)                                       *)
(***************************************************************************)
SelectedLabel == app.tabs[app.selected_tab + 1]
Viewed == Created /\ is_some(app.data) /\ element = view(app)

\* C26: with data loaded, the content pane of a tab labelled 'bookmarks' is a
\* scrollable column of one button per bookmark for the first
\* min(128, number of bookmarks) bookmarks, in stored order, the button of a
\* bookmark showing its url and producing OpenBookmark of its uuid when pressed;
\* the content pane of every other tab is the text 'no content'.
C26_BookmarkList ==
    Viewed =>
        LET pane == element.children[2]
            bookmark == app.data[1].bookmark
            n == Min(128, Len(bookmark))
        IN  IF SelectedLabel = "bookmarks"
            THEN /\ pane.widget = "Scrollable" /\ pane.content.widget = "Column"
                 /\ Len(pane.content.children) = n
                 /\ \A k \in 1 .. n :
                        LET entry == pane.content.children[k]
                        IN  /\ entry.widget = "Button"
                            /\ entry.content = text(bookmark[k].url)
                            /\ Pressable(entry) =
                                    {Message("OpenBookmark", bookmark[k].uuid)}
            ELSE pane = text("no content")

\* A file of 130 bookmarks is shown: 128 entries.
C26_Witness ==
    /\ Viewed
    /\ SelectedLabel = "bookmarks"
    /\ Len(app.data[1].bookmark) = 130
    /\ Len(element.children[2].content.children) = 128
    /\ Len(app.tabs) = 4 /\ app.selected_tab = 3
====
